---- MODULE Spec2Model ----
(***************************************************************************)
(* A model of the Amazon pre-order monitor: the PreorderMonitor run loop   *)
(* (core/monitor.py), the availability classifier (amazon/product.py), the *)
(* session checks (core/monitor.py, amazon/auth.py), the login sequence    *)
(* (amazon/auth.py), and the credential handling (security/*.py).          *)
(*                                                                         *)
(* The program is single-threaded.  Each subsystem has its own             *)
(* specification over its own variables; the variables of the other        *)
(* subsystems keep their initial values there.                             *)
(*   Spec        the run of PreorderMonitor.start()                        *)
(*   SpecSecure  the life of one SecureString                              *)
(*   SpecKey     Encryption._load_key / rotate_key against the keyring     *)
(*   SpecAuth    AmazonAuth._enter_credentials on a sign-in page           *)
(*   SpecClassify  the session checks and check_availability on one page   *)
(*   SpecSched     the three scheduling helpers of the run loop            *)
(*   SpecLive      Spec with every step of the run terminating             *)
(*   SpecExternal  the run, with stop() also called from outside the loop  *)
(*   SpecCheckout  one call of CheckoutHandler.attempt_purchase            *)
(*   SpecDecrypt   Encryption.encrypt and decrypt of one secret            *)
(*   SpecVault     one Encryption instance and the keyring over time       *)
(*   SpecConfig    Config and create_config_from_args                      *)
(*   SpecBrowser   BrowserManager under any sequence of calls              *)
(***************************************************************************)
EXTENDS Integers, Sequences, FiniteSets, TLC

VARIABLES
    \* ---- PreorderMonitor / BrowserManager (core/monitor.py) ----
    pc,                    \* position of the run inside start()
    has_manager,           \* PreorderMonitor.browser_manager is not None
    refresh_interval,      \* config.refresh_interval
    is_running,            \* PreorderMonitor.is_running
    session_check_counter, \* PreorderMonitor.session_check_counter
    check_count,           \* PreorderMonitor.check_count
    driver,                \* BrowserManager.driver: "none" or "live"
    interval,              \* the local `interval` of the current tick
    verdict,               \* result of the tick's check_availability call
    purchase_verdict,      \* result of the call inside _attempt_purchase
    outcome,               \* how _monitoring_loop ended, seen from start()
    exit_reason,           \* which return / raise ended the loop
    \* history of the run (observations, not program state)
    tick,                  \* ticks started
    invalid_verdicts,      \* session checks that returned False
    logins,                \* calls of auth.login
    login_failed,          \* some auth.login returned False
    purchase_call,         \* arguments of the tick's attempt_purchase call
    purchases_ok,          \* attempt_purchase calls that returned True
    purchase_failed,       \* the previous step or tick had a failed purchase attempt
    cleanups,              \* calls of browser_manager.cleanup
    quits,                 \* calls of driver.quit
    drivers_created,       \* drivers _create_driver has returned
    after_success,         \* browser operations started after a successful purchase
    after_failed_login,    \* browser operations started after a failed login
    in_flight,             \* the automation sequences that have begun and not ended
    entered,               \* the step at pc has been called and has not returned
    step_raised,           \* the step that returned last caught a failure inside
    periodic,              \* the tick's periodic session check: "none", "valid",
                           \* "invalid", "relogin_ok", "relogin_failed"
    \* ---- SecureString (security/secure_string.py) ----
    ss_state,              \* "created", "in_callback", "returned", "raised",
                           \* "wiping", "destroyed"
    ss_secret,             \* the str the SecureString was created from
    ss_buffer,             \* SecureString._buffer, a sequence of bytes
    ss_length,             \* SecureString._length
    ss_arg,                \* what the callback was last called with
    ss_calls,              \* calls of the callback
    ss_error,              \* the exception the caller of use_secret saw last
    \* ---- Encryption and the system keyring (security/encryption.py) ----
    keyring,               \* what the keyring stores for (SERVICE_ID, KEY_USERNAME)
    fernet,                \* Encryption._fernet: the key it was built from
    keys_generated,        \* calls of _generate_key
    last_load,             \* the last _load_key call: what it found, left and did
    \* ---- AmazonAuth.login (amazon/auth.py) ----
    auth_pc,               \* where the login attempt is
    auth_page,             \* the page the browser shows
    logged,                \* the field values written to the log
    login_result,          \* what login returned: "none", "true", "false"
    unlocks,               \* calls of decrypt_password
    signin_lookups,        \* calls of _click_signin_button
    signin_clicks,         \* clicks on a sign-in control
    steps,                 \* the steps of the attempt, in order
    \* ---- one call of a classifier (core/monitor.py, amazon/auth.py,
    \* ---- amazon/product.py) ----
    cl_kind,               \* "quick", "full" or "page": the classifier called
    cl_input,              \* the snapshot or page it is called on
    cl_result,             \* what it returned
    \* ---- calls of one scheduler function of a PreorderMonitor
    \* ---- (core/monitor.py) ----
    sched_fn,              \* "interval", "session" or "browsing": the function called
    sched,                 \* the fields it reads and writes, and the last interval
    sched_hist,            \* its calls so far: the last draw and result, the calls
                           \* since it last fired, the calls between its last firings
    \* ---- CheckoutHandler.attempt_purchase (amazon/checkout.py) ----
    co_pc,                 \* position inside attempt_purchase
    co_in,                 \* the arguments button and button_type
    co_clicks,             \* the controls clicked so far, in order
    co_result,             \* "none", "True", "False", or "raise"
    co_hist,               \* what the flow has seen of the pages
    \* ---- Encryption.encrypt / decrypt (security/encryption.py) ----
    dec,                   \* one secret: the keys, the token, the result of decrypt
    \* ---- Config and create_config_from_args (config/settings.py, main.py) ----
    cfg,                   \* environment, arguments, the Config built and returned
    \* ---- BrowserManager on its own (core/monitor.py) ----
    bm                     \* the driver held, the drivers created, the quit calls

conf == <<has_manager, refresh_interval>>
counters == <<session_check_counter, check_count>>
frame == <<interval, verdict, purchase_verdict>>
ending == <<outcome, exit_reason>>
sessionHist == <<invalid_verdicts, logins, login_failed>>
purchaseHist == <<purchase_call, purchases_ok, purchase_failed>>
browser == <<driver, cleanups, quits, drivers_created>>

after == <<after_success, after_failed_login>>
flight == <<in_flight, entered, step_raised>>

monVars == <<pc, is_running, tick, periodic, after, flight, conf, counters, frame, ending,
             sessionHist, purchaseHist, browser>>

secVars == <<ss_state, ss_secret, ss_buffer, ss_length, ss_arg, ss_calls, ss_error>>

keyVars == <<keyring, fernet, keys_generated, last_load>>

authVars == <<auth_pc, auth_page, logged, login_result, unlocks, signin_lookups, signin_clicks, steps>>

clVars == <<cl_kind, cl_input, cl_result>>

schedVars == <<sched_fn, sched, sched_hist>>

coVars == <<co_pc, co_in, co_clicks, co_result, co_hist>>

decVars == <<dec>>
cfgVars == <<cfg>>
bmVars == <<bm>>

vars == <<monVars, secVars, keyVars, authVars, clVars, schedVars, coVars, decVars, cfgVars, bmVars>>

\* The variables of the other subsystems.
otherThanMon == <<secVars, keyVars, authVars, clVars, schedVars, coVars, decVars, cfgVars, bmVars>>
otherThanSec == <<monVars, keyVars, authVars, clVars, schedVars, coVars, decVars, cfgVars, bmVars>>
otherThanKey == <<monVars, secVars, authVars, clVars, schedVars, coVars, decVars, cfgVars, bmVars>>
otherThanAuth == <<monVars, secVars, keyVars, clVars, schedVars, coVars, decVars, cfgVars, bmVars>>
otherThanCl == <<monVars, secVars, keyVars, authVars, schedVars, coVars, decVars, cfgVars, bmVars>>
otherThanSched == <<monVars, secVars, keyVars, authVars, clVars, coVars, decVars, cfgVars, bmVars>>
otherThanCo == <<monVars, secVars, keyVars, authVars, clVars, schedVars, decVars, cfgVars, bmVars>>
otherThanDec == <<monVars, secVars, keyVars, authVars, clVars, schedVars, coVars, cfgVars, bmVars>>
otherThanCfg == <<monVars, secVars, keyVars, authVars, clVars, schedVars, coVars, decVars, bmVars>>
otherThanBm == <<monVars, secVars, keyVars, authVars, clVars, schedVars, coVars, decVars, cfgVars>>
otherThanVault == <<monVars, secVars, authVars, clVars, schedVars, coVars, cfgVars, bmVars>>

(***************************************************************************)
(* Bounds of the model.                                                    *)
(***************************************************************************)
MaxTicks == 9        \* ticks of the monitoring loop explored
MaxHits == 2         \* selector groups of a page that match or raise

(***************************************************************************)
(* Availability classifier: amazon/product.py                              *)
(***************************************************************************)
NumDirectSelectors == 8
NumBuyingSelectors == 4

\* What find_elements gives for one selector: -1 it raises, n >= 0 it
\* returns n elements.
FindResults == {-1, 0, 1, 2}

\* Python's None, for a handle and for a button type.
NoHandle == <<>>
NoType == "None"

\* The i-th element find_elements returned for selector g of a list.
Handle(kind, g, i) == <<kind, g, i>>

NotAvailable == [available |-> FALSE, button |-> NoHandle, button_type |-> NoType]

\* The for-loop over an ordered selector list, from selector g on: the first
\* selector with a non-empty result wins and its first element is returned; a
\* selector that raises is logged and skipped.
RECURSIVE first_match(_, _, _, _)
first_match(found, kind, g, n) ==
    IF g > n THEN NotAvailable
    ELSE IF found[g] > 0
         THEN [available |-> TRUE, button |-> Handle(kind, g, 1), button_type |-> kind]
         ELSE first_match(found, kind, g + 1, n)

check_direct_preorder_buttons(page) ==
    first_match(page.direct, "direct", 1, NumDirectSelectors)

check_buying_options_buttons(page) ==
    first_match(page.buying, "buying_options", 1, NumBuyingSelectors)

UnavailableTexts == {"Currently unavailable", "Out of Stock",
                     "Sign up to be notified when this item becomes available",
                     "Temporarily out of stock"}

\* page.texts: the unavailability phrases the page source contains;
\* page.source_ok: reading driver.page_source does not raise.
check_unavailability_messages(page) ==
    IF ~page.source_ok THEN FALSE
    ELSE \E t \in UnavailableTexts : t \in page.texts

\* A classifier that takes an unavailability phrase for an offer.
check_availability_PhraseOffers(page) ==
    IF ~page.nav_ok THEN NotAvailable
    ELSE LET d == check_direct_preorder_buttons(page) IN
         IF d.available THEN d
         ELSE LET b == check_buying_options_buttons(page) IN
              IF b.available THEN b
              ELSE IF check_unavailability_messages(page)
                   THEN [available |-> TRUE, button |-> NoHandle, button_type |-> NoType]
              ELSE NotAvailable

\* A classifier that looks for the unavailability phrases first.
check_availability_UnavailableFirst(page) ==
    IF ~page.nav_ok THEN NotAvailable
    ELSE IF check_unavailability_messages(page) THEN NotAvailable
    ELSE LET d == check_direct_preorder_buttons(page) IN
         IF d.available THEN d
         ELSE check_buying_options_buttons(page)

\* page.nav_ok: the browsing simulation and the navigation do not raise.
check_availability(page) ==
    IF ~page.nav_ok THEN NotAvailable
    ELSE LET d == check_direct_preorder_buttons(page) IN
         IF d.available THEN d
         ELSE LET b == check_buying_options_buttons(page) IN
              IF b.available THEN b
              ELSE IF check_unavailability_messages(page) THEN NotAvailable
              ELSE NotAvailable

\* Result vectors over n selectors in which at most k selectors match or raise.
Sparse(n, k) ==
    UNION { UNION { { [g \in 1..n |-> IF g \in S THEN f[g] ELSE 0] :
                        f \in [S -> FindResults \ {0}] } :
                    S \in { T \in SUBSET (1..n) : Cardinality(T) = j } } :
            j \in 0..k }

Pages ==
    UNION { [direct : Sparse(NumDirectSelectors, j),
             buying : Sparse(NumBuyingSelectors, MaxHits - j),
             texts : SUBSET UnavailableTexts,
             source_ok : BOOLEAN,
             nav_ok : BOOLEAN] : j \in 0..MaxHits }

\* Every result a call of check_availability can have.
Verdicts == { check_availability(p) : p \in Pages }

(***************************************************************************)
(* Session checks: core/monitor.py (_quick_session_check) and              *)
(* amazon/auth.py (is_session_valid)                                       *)
(*                                                                         *)
(* A page source or URL, lower-cased, is the set of marker fragments it    *)
(* holds; `phrase in text` is true when some fragment of the text has the  *)
(* phrase as a substring.                                                  *)
(***************************************************************************)
MaxFragments == 2    \* marker fragments held by a snapshot's source and URL

Fragments == {"unusual traffic", "captcha", "enter the characters",
              "prove you're not a robot", "validatecaptcha", "robot_check",
              "sorry, something went wrong", "hello, sign in",
              "sign in to your account", "/ap/signin", "sign in",
              "hello, john"}

\* phrase is a substring of fragment
Substring(phrase, fragment) ==
    \/ phrase = fragment
    \/ phrase = "captcha" /\ fragment = "validatecaptcha"
    \/ phrase = "sign in" /\ fragment \in {"hello, sign in", "sign in to your account"}

Contains(text, phrase) == \E f \in text : Substring(phrase, f)

\* Texts an element can show, and what str.strip / str.lower / str.split
\* make of them.
ElementTexts == {"", "  ", "Hello, sign in", "Hello, John", "Account & Lists",
                 "Account", "Sign in"}

Strip(t) == IF t = "  " THEN "" ELSE t

Lower(t) ==
    CASE t = "Hello, sign in" -> "hello, sign in"
      [] t = "Hello, John" -> "hello, john"
      [] t = "Account & Lists" -> "account & lists"
      [] t = "Account" -> "account"
      [] t = "Sign in" -> "sign in"
      [] OTHER -> t

WordCount(t) ==
    CASE t \in {"", "  "} -> 0
      [] t = "Account" -> 1
      [] t \in {"Hello, John", "Sign in"} -> 2
      [] OTHER -> 3

TextHas(lowered, phrase) ==
    \/ phrase = "sign in" /\ lowered \in {"hello, sign in", "sign in"}
    \/ phrase = "hello" /\ lowered \in {"hello, sign in", "hello, john"}

\* core/monitor.py imports logging, os, random, time, webdriver, Service and
\* the package's own classes; it never imports By, so evaluating By.ID raises
\* NameError.
ByImported == FALSE

quick_bot_detection_indicators ==
    {"unusual traffic", "captcha", "enter the characters",
     "prove you're not a robot", "validatecaptcha", "robot_check",
     "sorry, something went wrong"}

quick_sign_in_indicators ==
    {"hello, sign in", "sign in to your account", "/ap/signin"}

NoElement == "<absent>"

\* The try block of _quick_session_check.
\* snap.load_ok: set_page_load_timeout(15), driver.get and the reads of
\* current_url and page_source do not raise.  snap.account: the text of the
\* element with id nav-link-accountList, or NoElement.
quick_session_try(snap) ==
    IF ~snap.load_ok THEN FALSE
    ELSE IF \E ind \in quick_bot_detection_indicators :
                Contains(snap.src, ind) \/ Contains(snap.url, ind)
         THEN FALSE
    ELSE IF \E ind \in quick_sign_in_indicators : Contains(snap.src, ind)
         THEN FALSE
    ELSE IF /\ ByImported
            /\ snap.account # NoElement
            /\ LET account_text == Strip(snap.account) IN
               /\ account_text # ""
               /\ ~TextHas(Lower(account_text), "sign in")
               /\ \/ TextHas(Lower(account_text), "hello")
                  \/ WordCount(account_text) > 1
         THEN TRUE
    ELSE FALSE

\* _quick_session_check: "valid" (True), "invalid" (False), or "raise" when the
\* finally clause's set_page_load_timeout(30) raises.
quick_session_check(snap) ==
    IF ~snap.reset_ok THEN "raise"
    ELSE IF quick_session_try(snap) THEN "valid" ELSE "invalid"

full_block_indicators == {"captcha", "unusual traffic"}

full_sign_in_indicators == {"hello, sign in", "sign in", "sign in to your account"}

NumPositiveIndicators == 6

\* Some element of the list has a non-empty text other than the greeting.
RECURSIVE positive_element(_, _)
positive_element(elements, i) ==
    IF i > Len(elements) THEN FALSE
    ELSE LET text == Strip(elements[i]) IN
         IF text # "" /\ Lower(text) # "hello, sign in" THEN TRUE
         ELSE positive_element(elements, i + 1)

RECURSIVE positive_group(_, _)
positive_group(groups, g) ==
    IF g > NumPositiveIndicators THEN FALSE
    ELSE IF positive_element(groups[g], 1) THEN TRUE
    ELSE positive_group(groups, g + 1)

\* A full check that takes an unclear page for a logged-in one.
is_session_valid_UnclearIsValid(snap) ==
    IF ~snap.load_ok THEN FALSE
    ELSE IF \E ind \in full_block_indicators : Contains(snap.src, ind) THEN FALSE
    ELSE IF positive_group(snap.positive, 1) THEN TRUE
    ELSE IF \E ind \in full_sign_in_indicators : Contains(snap.src, ind) THEN FALSE
    ELSE TRUE

\* A full check that looks for sign-in prompts before the positive elements.
is_session_valid_PromptFirst(snap) ==
    IF ~snap.load_ok THEN FALSE
    ELSE IF \E ind \in full_block_indicators : Contains(snap.src, ind) THEN FALSE
    ELSE IF \E ind \in full_sign_in_indicators : Contains(snap.src, ind) THEN FALSE
    ELSE IF positive_group(snap.positive, 1) THEN TRUE
    ELSE FALSE

\* AmazonAuth.is_session_valid.  snap.load_ok: no step of the try block raises.
is_session_valid(snap) ==
    IF ~snap.load_ok THEN FALSE
    ELSE IF \E ind \in full_block_indicators : Contains(snap.src, ind) THEN FALSE
    ELSE IF positive_group(snap.positive, 1) THEN TRUE
    ELSE IF \E ind \in full_sign_in_indicators : Contains(snap.src, ind) THEN FALSE
    ELSE FALSE

\* Sets of at most k fragments.
FragmentSets(k) == { T \in SUBSET Fragments : Cardinality(T) <= k }

QuickSnapshots ==
    UNION { [load_ok : BOOLEAN, reset_ok : BOOLEAN,
             src : FragmentSets(j), url : FragmentSets(MaxFragments - j),
             account : ElementTexts \cup {NoElement}] : j \in 0..MaxFragments }

ElementLists == {<<>>} \cup { <<t>> : t \in ElementTexts }
                       \cup { <<t, u>> : t \in ElementTexts, u \in ElementTexts }

\* The element lists of the six positive indicators, at most one non-empty.
PositiveGroups ==
    { [g \in 1..NumPositiveIndicators |-> <<>>] } \cup
    { [g \in 1..NumPositiveIndicators |-> IF g = h THEN l ELSE <<>>] :
        h \in 1..NumPositiveIndicators, l \in ElementLists \ {<<>>} }

FullSnapshots ==
    [load_ok : BOOLEAN, src : FragmentSets(MaxFragments), positive : PositiveGroups]

\* Every result the two session checks can have.
QuickOutcomes == { quick_session_check(s) : s \in QuickSnapshots }
FullVerdicts == { is_session_valid(s) : s \in FullSnapshots }

(***************************************************************************)
(* The run of PreorderMonitor.start(): core/monitor.py                     *)
(***************************************************************************)
\* Intervals Config.__post_init__ accepts (refresh_interval >= 10), one at
\* most 20 and one above.
RefreshIntervals == {15, 60}

\* An interval that is randomised whatever the base.
calculate_interval_AlwaysRandom(base) == { base + r : r \in -10..10 }

\* _calculate_interval: the values random.randint(-10, 10) can give it.
calculate_interval(base) ==
    IF base > 20 THEN { base + r : r \in -10..10 } ELSE { base }

\* AmazonAuth.login returns True or False; it catches every Exception.
LoginResults == BOOLEAN

\* CheckoutHandler.attempt_purchase: False at once for a missing button or
\* type; otherwise the purchase flow succeeds or fails (every Exception is
\* caught and gives False).
attempt_purchase(button, button_type) ==
    IF button = NoHandle \/ button_type = NoType THEN {FALSE} ELSE BOOLEAN

NoVerdict == [available |-> FALSE, button |-> NoHandle, button_type |-> "unset"]
NoCall == [button |-> NoHandle, button_type |-> "unset"]

\* Positions inside the try block of start().
Running == {"get_driver", "init_quick", "init_login", "loop_top", "tick_session",
            "tick_fullcheck", "tick_login", "tick_browse", "tick_browsing",
            "tick_avail", "tick_reprobe", "tick_purchase", "tick_sleep"}

MonInit ==
    /\ pc = "constructed"
    /\ has_manager \in BOOLEAN
    /\ refresh_interval \in RefreshIntervals
    /\ is_running = FALSE
    /\ session_check_counter = 0
    /\ check_count = 0
    /\ driver = "none"
    /\ interval = 0
    /\ verdict = NoVerdict
    /\ purchase_verdict = NoVerdict
    /\ outcome = "none"
    /\ exit_reason = "none"
    /\ tick = 0
    /\ invalid_verdicts = 0
    /\ logins = 0
    /\ login_failed = FALSE
    /\ purchase_call = NoCall
    /\ purchases_ok = 0
    /\ purchase_failed = FALSE
    /\ cleanups = 0
    /\ quits = 0
    /\ drivers_created = 0
    /\ after_success = 0
    /\ after_failed_login = 0
    /\ periodic = "none"
    /\ in_flight = <<>>
    /\ entered = FALSE
    /\ step_raised = FALSE

\* A browser operation starts: counted once a purchase has succeeded, and once
\* a login has failed.
Touch ==
    /\ after_success' = IF purchases_ok > 0 THEN after_success + 1 ELSE after_success
    /\ after_failed_login' =
           IF login_failed THEN after_failed_login + 1 ELSE after_failed_login

\* The frame of _monitoring_loop is left: its locals are gone.
LeaveFrame == interval' = 0 /\ verdict' = NoVerdict /\ purchase_verdict' = NoVerdict

\* _monitoring_loop returns `result` to start().
LoopReturns_AlwaysFalse(result, reason) ==
    /\ pc' = "stopping"
    /\ outcome' = "returned_false"
    /\ exit_reason' = reason
    /\ LeaveFrame

LoopReturns(result, reason) ==
    /\ pc' = "stopping"
    /\ outcome' = IF result THEN "returned_true" ELSE "returned_false"
    /\ exit_reason' = reason
    /\ LeaveFrame

\* An Exception leaves _monitoring_loop and is caught in start().
LoopRaises(reason) ==
    /\ pc' = "stopping"
    /\ outcome' = "exception"
    /\ exit_reason' = reason
    /\ LeaveFrame

\* The loop goes on at position p.
Goto(p) == pc' = p /\ UNCHANGED <<ending, frame>>

\* The positions at which the loop calls a step that drives the browser, and
\* the automation sequence the step is.
StepPositions == {"init_quick", "init_login", "tick_fullcheck", "tick_login",
                  "tick_browsing", "tick_avail", "tick_reprobe", "tick_purchase"}

SequenceAt(p) ==
    CASE p \in {"init_quick", "tick_fullcheck"} -> "session_check"
      [] p \in {"init_login", "tick_login"} -> "auth"
      [] p = "tick_browsing" -> "browsing"
      [] p \in {"tick_avail", "tick_reprobe"} -> "probe"
      [] p = "tick_purchase" -> "purchase"

\* A call that returns while its sequence goes on in the background.
complete_Detached(running) == running

\* A step is an ordinary method call: when it returns, its sequence is over.
complete(running) == SubSeq(running, 1, Len(running) - 1)

\* The step at pc is called: its sequence begins.
EnterStep ==
    /\ UNCHANGED otherThanMon
    /\ pc \in StepPositions
    /\ ~entered
    /\ entered' = TRUE
    /\ in_flight' = Append(in_flight, SequenceAt(pc))
    /\ step_raised' = FALSE
    /\ UNCHANGED <<pc, is_running, tick, periodic, after, conf, counters, frame, ending,
                   sessionHist, purchaseHist, browser>>

\* The step at pc returns.
StepReturns ==
    /\ entered
    /\ entered' = FALSE
    /\ in_flight' = complete(in_flight)
    /\ step_raised' \in IF driver = "live" THEN BOOLEAN ELSE {TRUE}

\* What a step can get from the browser: anything of `results` from a live
\* one; from one that has been quit every WebDriver call raises, which the
\* step turns into `failed`.
FromBrowser(results, failed) == IF driver = "live" THEN results ELSE {failed}

\* start(), up to the call of _monitoring_loop.
Start ==
    /\ UNCHANGED otherThanMon
    /\ pc = "constructed"
    /\ is_running' = TRUE
    /\ pc' = "get_driver"
    /\ UNCHANGED <<tick, periodic, after, flight, conf, counters, frame, ending, sessionHist,
                   purchaseHist, browser>>

\* browser_manager.get_driver(): AttributeError without a manager; otherwise
\* the driver is created, or _create_driver raises WebDriverError.
GetDriver ==
    /\ UNCHANGED otherThanMon
    /\ pc = "get_driver"
    /\ \/ /\ ~has_manager
          /\ LoopRaises("get_driver")
          /\ UNCHANGED <<driver, drivers_created>>
       \/ /\ has_manager
          /\ \/ /\ driver' = "live"
                /\ drivers_created' = drivers_created + 1
                /\ Goto("init_quick")
             \/ /\ LoopRaises("get_driver")
                /\ UNCHANGED <<driver, drivers_created>>
    /\ UNCHANGED <<is_running, tick, periodic, after, flight, conf, counters, sessionHist,
                   purchaseHist, cleanups, quits>>

\* _initialize_session, first half: the quick check.  True: the session is
\* initialised.  False: login follows.  A raise is caught by
\* _initialize_session, which returns False, and the loop returns False.
InitQuickCheck ==
    /\ UNCHANGED otherThanMon
    /\ pc = "init_quick"
    /\ Touch
    /\ StepReturns
    /\ \E r \in FromBrowser(QuickOutcomes, "raise") :
         \/ /\ r = "valid"
            /\ ~step_raised'
            /\ Goto("loop_top")
            /\ UNCHANGED invalid_verdicts
         \/ /\ r = "invalid"
            /\ Goto("init_login")
            /\ invalid_verdicts' = invalid_verdicts + 1
         \/ /\ r = "raise"
            /\ step_raised'
            /\ LoopReturns(FALSE, "init_failed")
            /\ UNCHANGED invalid_verdicts
    /\ UNCHANGED <<is_running, tick, periodic, conf, counters, logins, login_failed,
                   purchaseHist, browser>>

\* A login that is tried again when it fails.
AfterLogin_Retry(success, next, reason) ==
    IF success
    THEN /\ Goto(next)
         /\ UNCHANGED login_failed
    ELSE /\ login_failed' = TRUE
         /\ pc' = pc
         /\ UNCHANGED <<ending, frame>>

\* A failed login that is logged and ignored.
AfterLogin_Ignored(success, next, reason) ==
    /\ Goto(next)
    /\ login_failed' = (login_failed \/ ~success)

\* A failed periodic login that fails the run only during initialisation.
AfterLogin_InitOnly(success, next, reason) ==
    IF success \/ reason = "session_failed"
    THEN /\ Goto(next)
         /\ login_failed' = (login_failed \/ ~success)
    ELSE /\ login_failed' = TRUE
         /\ LoopReturns(FALSE, reason)

\* What follows a call of auth.login inside a session step: on True the loop
\* goes on at `next`, on False the step fails and the loop returns False.
AfterLogin(success, next, reason) ==
    IF success
    THEN /\ Goto(next)
         /\ UNCHANGED login_failed
    ELSE /\ login_failed' = TRUE
         /\ LoopReturns(FALSE, reason)

\* _initialize_session, second half: auth.login once; its result is the
\* result of _initialize_session.
InitLogin ==
    /\ UNCHANGED otherThanMon
    /\ pc = "init_login"
    /\ Touch
    /\ StepReturns
    /\ logins' = logins + 1
    /\ \E success \in FromBrowser(LoginResults, FALSE) :
         /\ success => ~step_raised'
         /\ AfterLogin(success, "loop_top", "init_failed")
    /\ UNCHANGED <<is_running, tick, periodic, conf, counters, invalid_verdicts, purchaseHist,
                   browser>>

\* A loop that never looks at the flag.
while_test_Forever(running) == TRUE

\* `while self.is_running`.
while_test(running) == running

\* The while test and _calculate_interval.
LoopTop ==
    /\ UNCHANGED otherThanMon
    /\ pc = "loop_top"
    /\ IF while_test(is_running)
       THEN /\ tick < MaxTicks
            /\ tick' = tick + 1
            /\ interval' \in calculate_interval(refresh_interval)
            /\ verdict' = NoVerdict
            /\ purchase_verdict' = NoVerdict
            /\ periodic' = "none"
            /\ pc' = "tick_session"
            /\ UNCHANGED ending
       ELSE /\ LoopReturns(FALSE, "stopped")
            /\ UNCHANGED <<tick, periodic>>
    /\ step_raised' = FALSE
    /\ UNCHANGED <<is_running, after, in_flight, entered, conf, counters, sessionHist,
                   purchaseHist, browser>>

\* A check that fires only when the counter is above the draw.
should_check_session_Above(counter, n) ==
    IF counter + 1 > n THEN [fire |-> TRUE, counter |-> 0]
    ELSE [fire |-> FALSE, counter |-> counter + 1]

\* A check that fires and keeps counting.
should_check_session_NoReset(counter, n) ==
    [fire |-> (counter + 1 >= n), counter |-> counter + 1]

\* What _should_check_session does to the counter, for the draw n of
\* random.randint(5, 10).
should_check_session(counter, n) ==
    IF counter + 1 >= n THEN [fire |-> TRUE, counter |-> 0]
    ELSE [fire |-> FALSE, counter |-> counter + 1]

ShouldCheckSession ==
    /\ UNCHANGED otherThanMon
    /\ pc = "tick_session"
    /\ \E n \in 5..10 :
         LET r == should_check_session(session_check_counter, n) IN
         /\ session_check_counter' = r.counter
         /\ Goto(IF r.fire THEN "tick_fullcheck" ELSE "tick_browse")
    /\ purchase_call' = NoCall
    /\ purchase_failed' = FALSE
    /\ UNCHANGED <<is_running, tick, periodic, after, flight, conf, check_count, sessionHist,
                   purchases_ok, browser>>

\* _handle_session_check, first half: auth.is_session_valid.
HandleSessionCheck ==
    /\ UNCHANGED otherThanMon
    /\ pc = "tick_fullcheck"
    /\ Touch
    /\ StepReturns
    /\ \E valid \in FromBrowser(FullVerdicts, FALSE) :
         IF valid
         THEN /\ ~step_raised'
              /\ Goto("tick_browse")
              /\ periodic' = "valid"
              /\ UNCHANGED invalid_verdicts
         ELSE /\ Goto("tick_login")
              /\ periodic' = "invalid"
              /\ invalid_verdicts' = invalid_verdicts + 1
    /\ UNCHANGED <<is_running, tick, conf, counters, logins, login_failed,
                   purchaseHist, browser>>

\* _handle_session_check, second half: `return self.auth.login(driver)`; a
\* False result makes the loop return False.
HandleSessionLogin ==
    /\ UNCHANGED otherThanMon
    /\ pc = "tick_login"
    /\ Touch
    /\ StepReturns
    /\ logins' = logins + 1
    /\ \E success \in FromBrowser(LoginResults, FALSE) :
         /\ success => ~step_raised'
         /\ AfterLogin(success, "tick_browse", "session_failed")
         /\ periodic' = IF success THEN "relogin_ok" ELSE "relogin_failed"
    /\ UNCHANGED <<is_running, tick, conf, counters, invalid_verdicts, purchaseHist,
                   browser>>

\* A test of the count as it was before this call.
should_do_random_browsing_BeforeIncrement(count, n) ==
    [fire |-> (count % n = 0), count |-> count + 1]

\* What _should_do_random_browsing does to the count, for the draw n of
\* random.randint(8, 12).
should_do_random_browsing(count, n) ==
    [fire |-> ((count + 1) % n = 0), count |-> count + 1]

ShouldDoRandomBrowsing ==
    /\ UNCHANGED otherThanMon
    /\ pc = "tick_browse"
    /\ \E n \in 8..12 :
         LET r == should_do_random_browsing(check_count, n) IN
         /\ check_count' = r.count
         /\ Goto(IF r.fire THEN "tick_browsing" ELSE "tick_avail")
    /\ UNCHANGED <<is_running, tick, periodic, after, flight, conf, session_check_counter,
                   sessionHist, purchaseHist, browser>>

\* A _handle_random_browsing without its try block.
handle_random_browsing_Uncaught(raised) == IF raised THEN "raise" ELSE "done"

\* What _handle_random_browsing makes of a failure of driver.get or
\* execute_script: every Exception is caught and logged.
handle_random_browsing(raised) == "done"

HandleRandomBrowsing ==
    /\ UNCHANGED otherThanMon
    /\ pc = "tick_browsing"
    /\ Touch
    /\ StepReturns
    /\ IF handle_random_browsing(step_raised') = "raise"
       THEN LoopRaises("browsing")
       ELSE Goto("tick_avail")
    /\ UNCHANGED <<is_running, tick, periodic, conf, counters, sessionHist, purchaseHist,
                   browser>>

\* _check_availability: one call of check_availability; its `available` decides.
CheckAvailability ==
    /\ UNCHANGED otherThanMon
    /\ pc = "tick_avail"
    /\ Touch
    /\ StepReturns
    /\ \E v \in FromBrowser(Verdicts, NotAvailable) :
         /\ v.available => ~step_raised'
         /\ verdict' = v
         /\ pc' = IF v.available THEN "tick_reprobe" ELSE "tick_sleep"
    /\ UNCHANGED <<is_running, tick, periodic, conf, counters, interval, purchase_verdict,
                   ending, sessionHist, purchaseHist, browser>>

\* _attempt_purchase, first half: check_availability is called again; when the
\* product is no longer available _attempt_purchase returns False.
AttemptPurchaseProbe ==
    /\ UNCHANGED otherThanMon
    /\ pc = "tick_reprobe"
    /\ Touch
    /\ StepReturns
    /\ \E v \in FromBrowser(Verdicts, NotAvailable) :
         /\ v.available => ~step_raised'
         /\ purchase_verdict' = v
         /\ pc' = IF v.available THEN "tick_purchase" ELSE "tick_sleep"
    /\ UNCHANGED <<is_running, tick, periodic, conf, counters, interval, verdict, ending,
                   sessionHist, purchaseHist, browser>>

\* The arguments _attempt_purchase hands to checkout_handler.attempt_purchase:
\* the button and type of its own (second) check.
purchase_arguments(second, first) ==
    [button |-> second.button, button_type |-> second.button_type]

\* A failed purchase that ends the run.
AfterPurchase_FailureEnds(success) ==
    IF success
    THEN /\ purchases_ok' = purchases_ok + 1
         /\ LoopReturns(TRUE, "purchased")
         /\ UNCHANGED purchase_failed
    ELSE /\ purchase_failed' = TRUE
         /\ LoopReturns(FALSE, "purchase_failed")
         /\ UNCHANGED purchases_ok

\* A successful purchase after which the loop goes on.
AfterPurchase_GoesOn(success) ==
    /\ purchases_ok' = IF success THEN purchases_ok + 1 ELSE purchases_ok
    /\ purchase_failed' = ~success
    /\ Goto("tick_sleep")

\* What the loop does with the result of _attempt_purchase: True makes it
\* return True; False is logged and the loop goes on to the sleep.
AfterPurchase(success) ==
    IF success
    THEN /\ purchases_ok' = purchases_ok + 1
         /\ LoopReturns(TRUE, "purchased")
         /\ UNCHANGED purchase_failed
    ELSE /\ purchase_failed' = TRUE
         /\ Goto("tick_sleep")
         /\ UNCHANGED purchases_ok

\* _attempt_purchase, second half: checkout_handler.attempt_purchase.
AttemptPurchase ==
    /\ UNCHANGED otherThanMon
    /\ pc = "tick_purchase"
    /\ Touch
    /\ StepReturns
    /\ LET args == purchase_arguments(purchase_verdict, verdict) IN
       /\ purchase_call' = args
       /\ \E success \in FromBrowser(attempt_purchase(args.button, args.button_type),
                                      FALSE) :
            /\ success => ~step_raised'
            /\ AfterPurchase(success)
    /\ UNCHANGED <<is_running, tick, periodic, conf, counters, sessionHist, browser>>

\* time.sleep(interval): ValueError for a negative interval.
Sleep ==
    /\ UNCHANGED otherThanMon
    /\ pc = "tick_sleep"
    /\ IF interval < 0
       THEN LoopRaises("sleep")
       ELSE Goto("loop_top")
    /\ step_raised' = FALSE
    /\ UNCHANGED <<is_running, tick, periodic, after, in_flight, entered, conf, counters,
                   sessionHist, purchaseHist, browser>>

\* Ctrl-C while _monitoring_loop runs: KeyboardInterrupt is no Exception, so no
\* handler below start() catches it.
KeyboardInterrupt ==
    /\ UNCHANGED otherThanMon
    /\ pc \in Running
    /\ pc' = "stopping"
    /\ outcome' = "interrupt"
    /\ exit_reason' = "interrupt"
    /\ LeaveFrame
    /\ in_flight' = <<>>
    /\ entered' = FALSE
    /\ step_raised' = FALSE
    /\ UNCHANGED <<is_running, tick, periodic, after, conf, counters, sessionHist,
                   purchaseHist, browser>>

\* is_running is cleared from outside the loop while it runs (the tests do it
\* from a patched step).
ClearRunning ==
    /\ UNCHANGED otherThanMon
    /\ pc \in Running
    /\ is_running
    /\ is_running' = FALSE
    /\ UNCHANGED <<pc, tick, periodic, after, flight, conf, counters, frame, ending,
                   sessionHist, purchaseHist, browser>>

\* BrowserManager.cleanup: with a driver, quit it (a failure of quit is
\* caught) and forget it; without one, nothing.
cleanup(d) == [driver |-> "none", quit |-> IF d = "live" THEN 1 ELSE 0]

\* A stop() that clears the flag and leaves the browser alone.
stop_NoCleanup(manager, d) ==
    [is_running |-> FALSE, cleanup |-> 0, driver |-> d, quit |-> 0]

\* stop(), run by the finally clause of start(): is_running is cleared and,
\* with a manager, cleanup is called.
stop(manager, d) ==
    [is_running |-> FALSE,
     cleanup |-> IF manager THEN 1 ELSE 0,
     driver |-> IF manager THEN cleanup(d).driver ELSE d,
     quit |-> IF manager THEN cleanup(d).quit ELSE 0]

Stop ==
    /\ UNCHANGED otherThanMon
    /\ pc = "stopping"
    /\ LET r == stop(has_manager, driver) IN
       /\ is_running' = r.is_running
       /\ cleanups' = cleanups + r.cleanup
       /\ driver' = r.driver
       /\ quits' = quits + r.quit
    /\ pc' = "done"
    /\ UNCHANGED <<drivers_created, tick, periodic, after, flight, conf, counters, frame, ending, sessionHist,
                   purchaseHist>>

\* stop() is called from outside start() (another thread) while the loop
\* runs: the flag is cleared and the browser is cleaned up at once.
ExternalStop ==
    /\ UNCHANGED otherThanMon
    /\ pc \in Running
    /\ is_running
    /\ LET r == stop(has_manager, driver) IN
       /\ is_running' = r.is_running
       /\ cleanups' = cleanups + r.cleanup
       /\ driver' = r.driver
       /\ quits' = quits + r.quit
    /\ UNCHANGED <<pc, drivers_created, tick, periodic, after, flight, conf, counters,
                   frame, ending, sessionHist, purchaseHist>>

MonNext ==
    \/ Start \/ GetDriver \/ EnterStep \/ InitQuickCheck \/ InitLogin \/ LoopTop
    \/ ShouldCheckSession \/ HandleSessionCheck \/ HandleSessionLogin
    \/ ShouldDoRandomBrowsing \/ HandleRandomBrowsing \/ CheckAvailability
    \/ AttemptPurchaseProbe \/ AttemptPurchase \/ Sleep
    \/ KeyboardInterrupt \/ ClearRunning \/ Stop

(***************************************************************************)
(* SecureString: security/secure_string.py                                 *)
(*                                                                         *)
(* A str is a sequence of characters; bytes are numbers.  The characters   *)
(* are two ASCII letters, NUL, and one two-byte character.                 *)
(***************************************************************************)
MaxSecretLen == 2    \* characters of a secret
MaxUses == 2         \* use_secret calls on one SecureString

Characters == {"a", "b", "nul", "e_acute"}

\* str.encode() of one character (UTF-8).
EncodeChar(c) ==
    CASE c = "a" -> <<97>>
      [] c = "b" -> <<98>>
      [] c = "nul" -> <<0>>
      [] c = "e_acute" -> <<195, 169>>

RECURSIVE Encode(_)
Encode(str) ==
    IF str = <<>> THEN <<>> ELSE EncodeChar(Head(str)) \o Encode(Tail(str))

\* bytes.decode() (UTF-8): the characters, or DecodeError for a sequence that
\* is cut inside a character or starts with a continuation byte.
DecodeError == <<"UnicodeDecodeError">>

RECURSIVE Decode(_)
Decode(bytes) ==
    IF bytes = <<>> THEN <<>>
    ELSE LET b == Head(bytes) IN
         IF b \in {0, 97, 98}
         THEN LET rest == Decode(Tail(bytes)) IN
              IF rest = DecodeError THEN DecodeError
              ELSE <<(CASE b = 0 -> "nul" [] b = 97 -> "a" [] OTHER -> "b")>> \o rest
         ELSE IF b = 195 /\ Len(bytes) >= 2 /\ bytes[2] = 169
         THEN LET rest == Decode(Tail(Tail(bytes))) IN
              IF rest = DecodeError THEN DecodeError ELSE <<"e_acute">> \o rest
         ELSE DecodeError

Strings(n) == UNION { [1..k -> Characters] : k \in 0..n }

\* The byte values secrets.token_bytes is seen to produce.
ByteValues == {0, 97, 98, 169, 195}

\* ctypes.create_string_buffer(b): the bytes and a terminating NUL.
create_string_buffer(bytes) == bytes \o <<0>>

\* ctypes.memmove / memset over the first n bytes of a buffer.
memmove(buffer, src, n) ==
    [i \in 1..Len(buffer) |-> IF i <= n THEN src[i] ELSE buffer[i]]

memset(buffer, value, n) ==
    [i \in 1..Len(buffer) |-> IF i <= n THEN value ELSE buffer[i]]

\* __init__: _length is the number of characters, the buffer holds the
\* encoded bytes.
SecInit ==
    /\ ss_secret \in Strings(MaxSecretLen)
    /\ ss_state = "created"
    /\ ss_buffer = create_string_buffer(Encode(ss_secret))
    /\ ss_length = Len(ss_secret)
    /\ ss_arg = <<>>
    /\ ss_calls = 0
    /\ ss_error = "none"

\* What the finally clause of use_secret does to the buffer: `del temp`
\* unbinds the local name, the buffer is not touched.
use_secret_finally(buffer, length) == buffer

\* use_secret, up to the call of func: temp is decoded from the first _length
\* bytes.  When decoding raises, temp was never bound and `del temp` raises
\* UnboundLocalError in place of the decoding error.
UseSecretCall ==
    /\ ss_state \in {"created", "returned", "raised"}
    /\ ss_calls < MaxUses
    /\ LET temp == Decode(SubSeq(ss_buffer, 1, ss_length)) IN
       IF temp = DecodeError
       THEN /\ ss_state' = "raised"
            /\ ss_error' = "UnboundLocalError"
            /\ ss_buffer' = use_secret_finally(ss_buffer, ss_length)
            /\ UNCHANGED <<ss_arg, ss_calls>>
       ELSE /\ ss_state' = "in_callback"
            /\ ss_arg' = temp
            /\ ss_calls' = ss_calls + 1
            /\ UNCHANGED <<ss_error, ss_buffer>>
    /\ UNCHANGED <<ss_secret, ss_length, otherThanSec>>

\* func returns or raises; the finally clause runs either way.
UseSecretReturn ==
    /\ ss_state = "in_callback"
    /\ \E raised \in BOOLEAN :
         /\ ss_state' = IF raised THEN "raised" ELSE "returned"
         /\ ss_error' = IF raised THEN "callback" ELSE "none"
    /\ ss_buffer' = use_secret_finally(ss_buffer, ss_length)
    /\ UNCHANGED <<ss_secret, ss_length, ss_arg, ss_calls, otherThanSec>>

\* __del__ -> _secure_wipe, first statement pair: _length random bytes are
\* moved over the start of the buffer.
SecureWipeRandom ==
    /\ ss_state \in {"created", "returned", "raised"}
    /\ \E random_bytes \in [1..ss_length -> ByteValues] :
         ss_buffer' = memmove(ss_buffer, random_bytes, ss_length)
    /\ ss_state' = "wiping"
    /\ UNCHANGED <<ss_secret, ss_length, ss_arg, ss_calls, ss_error, otherThanSec>>

\* _secure_wipe, last statement: _length zero bytes.
SecureWipeZero ==
    /\ ss_state = "wiping"
    /\ ss_buffer' = memset(ss_buffer, 0, ss_length)
    /\ ss_state' = "destroyed"
    /\ UNCHANGED <<ss_secret, ss_length, ss_arg, ss_calls, ss_error, otherThanSec>>

SecNext == UseSecretCall \/ UseSecretReturn \/ SecureWipeRandom \/ SecureWipeZero

\* No SecureString is under observation.
SecIdle ==
    /\ ss_state = "none"
    /\ ss_secret = <<>>
    /\ ss_buffer = <<>>
    /\ ss_length = 0
    /\ ss_arg = <<>>
    /\ ss_calls = 0
    /\ ss_error = "none"

(***************************************************************************)
(* Encryption and the keyring: security/encryption.py                      *)
(*                                                                         *)
(* A stored value is absent, a valid Fernet key, or a string Fernet        *)
(* rejects; keys are told apart by a number.                               *)
(***************************************************************************)
MaxKeys == 3         \* keys _generate_key produces

Absent == [kind |-> "absent", id |-> 0]
NoKey == [kind |-> "none", id |-> 0]
ValidKey(n) == [kind |-> "valid", id |-> n]
InvalidKey == [kind |-> "invalid", id |-> 0]

\* Fernet(key) accepts the key.
FernetAccepts(key) == key.kind = "valid"

NoLoad == [found |-> NoKey, left |-> NoKey, result |-> "none", generated |-> FALSE]

KeyInit ==
    /\ keyring \in {Absent, ValidKey(0), InvalidKey}
    /\ fernet = NoKey
    /\ keys_generated = 0
    /\ last_load = NoLoad

\* _load_key for the stored value `stored`, `fresh` being what _generate_key
\* returns and the flags saying whether the keyring calls succeed: the key it
\* returns (NoKey when it raises), what the keyring holds afterwards, and
\* whether a key was generated.
load_key(stored, fresh, get_ok, set_ok) ==
    IF ~get_ok
    THEN [key |-> NoKey, keyring |-> stored, generated |-> FALSE]
    ELSE IF stored = Absent
    THEN IF set_ok
         THEN [key |-> fresh, keyring |-> fresh, generated |-> TRUE]
         ELSE [key |-> NoKey, keyring |-> stored, generated |-> TRUE]
    ELSE IF FernetAccepts(stored)
    THEN [key |-> stored, keyring |-> stored, generated |-> FALSE]
    ELSE \* "Stored key is invalid, generating new one"
         IF set_ok
         THEN [key |-> fresh, keyring |-> fresh, generated |-> TRUE]
         ELSE [key |-> NoKey, keyring |-> stored, generated |-> TRUE]

\* The fernet property with no cached instance: _load_key, then Fernet(key).
LoadKey ==
    /\ fernet = NoKey
    /\ keys_generated < MaxKeys
    /\ \E get_ok \in BOOLEAN, set_ok \in BOOLEAN :
         LET r == load_key(keyring, ValidKey(keys_generated + 1), get_ok, set_ok) IN
         /\ keyring' = r.keyring
         /\ fernet' = r.key
         /\ keys_generated' = IF r.generated THEN keys_generated + 1 ELSE keys_generated
         /\ last_load' = [found |-> keyring, left |-> r.keyring,
                          result |-> IF r.key = NoKey THEN "error" ELSE "ok",
                          generated |-> r.generated]
    /\ UNCHANGED otherThanKey

\* rotate_key: _generate_key, then _store_key (set_password, new Fernet).
RotateKey ==
    /\ keys_generated < MaxKeys
    /\ keys_generated' = keys_generated + 1
    /\ \E set_ok \in BOOLEAN :
         IF set_ok
         THEN /\ keyring' = ValidKey(keys_generated + 1)
              /\ fernet' = ValidKey(keys_generated + 1)
         ELSE UNCHANGED <<keyring, fernet>>
    /\ UNCHANGED <<last_load, otherThanKey>>

\* Another Encryption object is made (each PasswordManager makes one): nothing
\* is cached in it yet.
NewEncryption ==
    /\ fernet # NoKey
    /\ fernet' = NoKey
    /\ UNCHANGED <<keyring, keys_generated, last_load, otherThanKey>>

\* The keyring entry is changed or deleted by something outside the program.
KeyringChanged ==
    /\ \E v \in {Absent, ValidKey(0), InvalidKey} :
         /\ v # keyring
         /\ keyring' = v
    /\ UNCHANGED <<fernet, keys_generated, last_load, otherThanKey>>

KeyNext == LoadKey \/ RotateKey \/ NewEncryption \/ KeyringChanged

\* No Encryption object is under observation.
KeyIdle ==
    /\ keyring = Absent
    /\ fernet = NoKey
    /\ keys_generated = 0
    /\ last_load = NoLoad

(***************************************************************************)
(* AmazonAuth.login: amazon/auth.py                                        *)
(*                                                                         *)
(* A page is the list of its visible inputs and buttons, of which only the *)
(* place and the value of the password field matter: `inputs` is how many  *)
(* there are, `password_at` the place of the password field among them (0: *)
(* none), `value` what the password field holds.                           *)
(***************************************************************************)
MaxInputs == 11      \* visible inputs and buttons on a page

\* The plaintext of the account password.
Secret == "plaintext"

NumSigninSelectors == 7
DumpLimit == 10

\* The sizes of page tried: empty, small, and longer than the dump.
PageSizes == {0, 1, 2, MaxInputs}

BlankPages ==
    { p \in [inputs : PageSizes, password_at : PageSizes, value : {""}] :
        p.password_at <= p.inputs }

NoPage == [inputs |-> 0, password_at |-> 0, value |-> ""]

AuthInit ==
    /\ auth_pc = "navigate"
    /\ auth_page = NoPage
    /\ logged = {}
    /\ login_result = "none"
    /\ unlocks = 0
    /\ signin_lookups = 0
    /\ signin_clicks = 0
    /\ steps = <<>>

\* login's except clause: "Login failed: {e}" is logged, False is returned.
LoginFails ==
    /\ auth_pc' = "done"
    /\ login_result' = "false"

Step(name) == steps' = Append(steps, name)

\* _navigate_to_login: the homepage, then the sign-in link or the sign-in
\* address.  driver.get may raise.
NavigateToLogin ==
    /\ auth_pc = "navigate"
    /\ Step("navigate")
    /\ \/ /\ \E p \in BlankPages : auth_page' = p
          /\ auth_pc' = "email"
          /\ UNCHANGED login_result
       \/ /\ LoginFails
          /\ UNCHANGED auth_page
    /\ UNCHANGED <<logged, unlocks, signin_lookups, signin_clicks, otherThanAuth>>

\* An _enter_credentials that decrypts the password before it submits the
\* email.
SubmitEmail_DecryptsFirst ==
    /\ auth_pc = "email"
    /\ Step("identity")
    /\ unlocks' = unlocks + 1
    /\ \/ /\ auth_page.inputs > 0
          /\ \E p \in BlankPages : auth_page' = p
          /\ auth_pc' = "password"
          /\ UNCHANGED login_result
       \/ /\ LoginFails
          /\ UNCHANGED auth_page
    /\ UNCHANGED <<logged, signin_lookups, signin_clicks, otherThanAuth>>

\* _enter_credentials, steps 1 and 2: the email field is found and filled and
\* Continue is clicked, which loads another page; or one of them is not
\* found (ElementNotFoundError, TimeoutException).
SubmitEmail ==
    /\ auth_pc = "email"
    /\ Step("identity")
    /\ \/ /\ auth_page.inputs > 0
          /\ \E p \in BlankPages : auth_page' = p
          /\ auth_pc' = "unlock"
          /\ UNCHANGED login_result
       \/ /\ LoginFails
          /\ UNCHANGED auth_page
    /\ UNCHANGED <<logged, unlocks, signin_lookups, signin_clicks, otherThanAuth>>

\* password_manager.decrypt_password: a SecureString, or DecryptionError.
Unlock ==
    /\ auth_pc = "unlock"
    /\ Step("unlock")
    /\ unlocks' = unlocks + 1
    /\ \/ /\ auth_pc' = "password"
          /\ UNCHANGED login_result
       \/ LoginFails
    /\ UNCHANGED <<auth_page, logged, signin_lookups, signin_clicks, otherThanAuth>>

\* fill_password, inside use_secret: the password field is waited for, cleared
\* and the plaintext is typed into it.
FillPassword ==
    /\ auth_pc = "password"
    /\ Step("secret")
    /\ IF auth_page.password_at > 0
       THEN /\ auth_page' = [auth_page EXCEPT !.value = Secret]
            /\ auth_pc' = "signin_in_callback"
            /\ UNCHANGED login_result
       ELSE /\ LoginFails
            /\ UNCHANGED auth_page
    /\ UNCHANGED <<logged, unlocks, signin_lookups, signin_clicks, otherThanAuth>>

\* _debug_available_fields: the value of each of the first DumpLimit visible
\* inputs and buttons is written to the log at error level ("no-value" for an
\* empty one); nothing is written when the elements cannot be listed.
debug_available_fields(p, listed) ==
    IF ~listed THEN {}
    ELSE (IF p.password_at >= 1 /\ p.password_at <= DumpLimit
          THEN {IF p.value = "" THEN "no-value" ELSE p.value}
          ELSE {})
         \cup (IF p.inputs > (IF p.password_at > 0 THEN 1 ELSE 0)
               THEN {"other"}
               ELSE {})

\* What a click on the sign-in control leaves in the browser: the form is
\* gone, or it is shown again with the field empty, or it stays as it is.
PagesAfterSubmit(p) ==
    {NoPage, [p EXCEPT !.value = ""], p}

\* _click_signin_button: the selectors are tried in order; the first clickable
\* match is clicked.  With no match the visible fields are dumped and
\* ElementNotFoundError is raised.
click_signin_button(next) ==
    /\ signin_lookups' = signin_lookups + 1
    /\ \E hit \in 0..NumSigninSelectors :
         IF hit > 0
         THEN /\ signin_clicks' = signin_clicks + 1
              /\ \E p \in PagesAfterSubmit(auth_page) : auth_page' = p
              /\ auth_pc' = next
              /\ UNCHANGED <<logged, login_result>>
         ELSE /\ \E listed \in BOOLEAN :
                   logged' = logged \cup debug_available_fields(auth_page, listed)
              /\ LoginFails
              /\ UNCHANGED <<auth_page, signin_clicks>>

\* The call at the end of fill_password.
ClickSigninInCallback ==
    /\ auth_pc = "signin_in_callback"
    /\ click_signin_button("signin_step4")
    /\ UNCHANGED <<unlocks, steps, otherThanAuth>>

\* The call after use_secret has returned ("Step 4: Submit login").
ClickSigninStep4 ==
    /\ auth_pc = "signin_step4"
    /\ click_signin_button("security")
    /\ UNCHANGED <<unlocks, steps, otherThanAuth>>

\* _handle_security_checks: the page source is read and the user is asked
\* to solve what it shows; reading may raise.
HandleSecurityChecks ==
    /\ auth_pc = "security"
    /\ Step("prompts")
    /\ \/ /\ auth_pc' = "verify"
          /\ UNCHANGED login_result
       \/ LoginFails
    /\ UNCHANGED <<auth_page, logged, unlocks, signin_lookups, signin_clicks, otherThanAuth>>

\* _verify_login: the account link shows up within the wait, or not.
VerifyLogin ==
    /\ auth_pc = "verify"
    /\ Step("verify")
    /\ auth_pc' = "done"
    /\ \E found \in BOOLEAN :
         /\ login_result' = IF found THEN "true" ELSE "false"
         /\ auth_page' = IF found THEN NoPage ELSE auth_page
    /\ UNCHANGED <<logged, unlocks, signin_lookups, signin_clicks, otherThanAuth>>

AuthNext ==
    \/ NavigateToLogin
    \/ SubmitEmail
    \/ Unlock
    \/ FillPassword
    \/ ClickSigninInCallback
    \/ ClickSigninStep4
    \/ HandleSecurityChecks
    \/ VerifyLogin

\* No login attempt is under observation.
AuthIdle ==
    /\ auth_pc = "idle"
    /\ auth_page = NoPage
    /\ logged = {}
    /\ login_result = "none"
    /\ unlocks = 0
    /\ signin_lookups = 0
    /\ signin_clicks = 0
    /\ steps = <<>>

(***************************************************************************)
(* One call of a classifier on one snapshot: _quick_session_check,         *)
(* is_session_valid, check_availability                                    *)
(***************************************************************************)
NoResult == [done |-> FALSE, session |-> "none", verdict |-> NoVerdict]

ClInit ==
    /\ cl_result = NoResult
    /\ \/ cl_kind = "quick" /\ cl_input \in QuickSnapshots
       \/ cl_kind = "full" /\ cl_input \in FullSnapshots
       \/ cl_kind = "page" /\ cl_input \in Pages

\* PreorderMonitor._quick_session_check(driver) on the snapshot.
QuickSessionCheck ==
    /\ cl_kind = "quick"
    /\ ~cl_result.done
    /\ cl_result' = [done |-> TRUE, session |-> quick_session_check(cl_input),
                     verdict |-> NoVerdict]
    /\ UNCHANGED <<cl_kind, cl_input, otherThanCl>>

\* AmazonAuth.is_session_valid(driver) on the snapshot.
IsSessionValid ==
    /\ cl_kind = "full"
    /\ ~cl_result.done
    /\ cl_result' = [done |-> TRUE,
                     session |-> IF is_session_valid(cl_input) THEN "valid" ELSE "invalid",
                     verdict |-> NoVerdict]
    /\ UNCHANGED <<cl_kind, cl_input, otherThanCl>>

\* ProductChecker.check_availability(driver) on the page.
ClassifyPage ==
    /\ cl_kind = "page"
    /\ ~cl_result.done
    /\ cl_result' = [done |-> TRUE, session |-> "none",
                     verdict |-> check_availability(cl_input)]
    /\ UNCHANGED <<cl_kind, cl_input, otherThanCl>>

ClNext == QuickSessionCheck \/ IsSessionValid \/ ClassifyPage

\* No classifier call is under observation.
ClIdle ==
    /\ cl_kind = "none"
    /\ cl_input = <<>>
    /\ cl_result = NoResult

(***************************************************************************)
(* Calls of one scheduler function on a new PreorderMonitor:               *)
(* _calculate_interval, _should_check_session, _should_do_random_browsing  *)
(***************************************************************************)
MaxCalls == 24       \* calls of _should_do_random_browsing

\* Values of config.refresh_interval: around the threshold of 20, and the
\* default.
SchedBases == {10, 15, 20, 21, 60}

NoHist == [calls |-> 0, fired |-> FALSE, draw |-> 0, since_fire |-> 0, last_gap |-> 0]

SchedInit ==
    /\ sched_fn \in {"interval", "session", "browsing"}
    /\ \E base \in (IF sched_fn = "interval" THEN SchedBases ELSE {60}) :
         sched = [refresh_interval |-> base, session_check_counter |-> 0,
                  check_count |-> 0, interval |-> 0]
    /\ sched_hist = NoHist

\* interval = self._calculate_interval()
CalculateInterval ==
    /\ sched_fn = "interval"
    /\ sched_hist.calls = 0
    /\ \E i \in calculate_interval(sched.refresh_interval) :
         sched' = [sched EXCEPT !.interval = i]
    /\ sched_hist' = [sched_hist EXCEPT !.calls = 1]
    /\ UNCHANGED <<sched_fn, otherThanSched>>

\* self._should_check_session()
CallShouldCheckSession ==
    /\ sched_fn = "session"
    /\ \E n \in 5..10 :
         LET r == should_check_session(sched.session_check_counter, n) IN
         /\ sched' = [sched EXCEPT !.session_check_counter = r.counter]
         /\ sched_hist' =
                [calls |-> 1, fired |-> r.fire, draw |-> n,
                 since_fire |-> IF r.fire THEN 0 ELSE sched_hist.since_fire + 1,
                 last_gap |-> IF r.fire THEN sched_hist.since_fire + 1
                              ELSE sched_hist.last_gap]
    /\ UNCHANGED <<sched_fn, otherThanSched>>

\* self._should_do_random_browsing()
CallShouldDoRandomBrowsing ==
    /\ sched_fn = "browsing"
    /\ sched_hist.calls < MaxCalls
    /\ \E n \in 8..12 :
         LET r == should_do_random_browsing(sched.check_count, n) IN
         /\ sched' = [sched EXCEPT !.check_count = r.count]
         /\ sched_hist' = [sched_hist EXCEPT !.calls = @ + 1, !.fired = r.fire,
                                             !.draw = n]
    /\ UNCHANGED <<sched_fn, otherThanSched>>

SchedNext == CalculateInterval \/ CallShouldCheckSession \/ CallShouldDoRandomBrowsing

\* No scheduler call is under observation.
SchedIdle ==
    /\ sched_fn = "none"
    /\ sched = [refresh_interval |-> 60, session_check_counter |-> 0,
                check_count |-> 0, interval |-> 0]
    /\ sched_hist = NoHist

(***************************************************************************)
(* The purchase flow: amazon/checkout.py                                   *)
(*                                                                         *)
(* One call of CheckoutHandler.attempt_purchase.  What the browser shows   *)
(* at each step (a control appears in time, a click goes through, a        *)
(* screenshot is saved) is chosen by the environment.                      *)
(***************************************************************************)
NumModalSelectors == 5
NumProceedSelectors == 4

\* A _take_screenshot that lets a failure of save_screenshot out.
take_screenshot_Unguarded(ok) == IF ok THEN "ok" ELSE "raise"

\* _take_screenshot: a failure of save_screenshot is logged, not raised.
take_screenshot(ok) == "ok"

\* A screenshot taken inside an except clause of a flow.  Were it to raise,
\* the exception would leave the flow for the except clause of
\* attempt_purchase, which takes a screenshot of its own.
handler_result(shot_ok, outer_ok) ==
    IF take_screenshot(shot_ok) = "ok" THEN "False"
    ELSE IF take_screenshot(outer_ok) = "ok" THEN "False" ELSE "raise"

\* _click_element: the regular click, then the JavaScript click; it raises
\* when both fail.
click_element(regular_ok, js_ok) == regular_ok \/ js_ok

\* The for-loop of the two finders: the first selector with a non-empty
\* result, 0 when there is none; a selector that raises is skipped.
RECURSIVE first_selector(_, _, _)
first_selector(found, g, n) ==
    IF g > n THEN 0
    ELSE IF found[g] > 0 THEN g
    ELSE first_selector(found, g + 1, n)

\* A finder that prefers the 'Buy now' control.
find_purchase_buttons_in_modal_BuyNowFirst(found) ==
    IF found[NumModalSelectors] > 0 THEN NumModalSelectors
    ELSE first_selector(found, 1, NumModalSelectors)

find_purchase_buttons_in_modal(found) == first_selector(found, 1, NumModalSelectors)

find_proceed_to_checkout_button(found) == first_selector(found, 1, NumProceedSelectors)

\* The element with id submitOrderButtonId.
PlaceOrder == <<"submitOrderButtonId">>

PurchaseButtons == {NoHandle, Handle("direct", 1, 1), Handle("buying_options", 1, 1)}
PurchaseTypes == {NoType, "", "direct", "buying_options"}

NoCoHist == [touched |-> FALSE, modal |-> "unseen", found |-> <<>>,
             direct |-> "unseen", cart |-> "unseen"]

CoInit ==
    /\ co_pc = "attempt_purchase"
    /\ co_in \in [button : PurchaseButtons, button_type : PurchaseTypes]
    /\ co_clicks = <<>>
    /\ co_result = "none"
    /\ co_hist = NoCoHist

CoReturn(result) == co_pc' = "done" /\ co_result' = result
CoGoto(p) == co_pc' = p /\ UNCHANGED co_result

\* attempt_purchase up to the choice of the flow: the guard on the arguments
\* and the first screenshot.
AttemptPurchaseEntry ==
    /\ co_pc = "attempt_purchase"
    /\ IF co_in.button = NoHandle \/ co_in.button_type \in {NoType, ""}
       THEN /\ CoReturn("False")
            /\ UNCHANGED co_hist
       ELSE /\ co_hist' = [co_hist EXCEPT !.touched = TRUE]
            /\ \E shot_ok \in BOOLEAN, outer_ok \in BOOLEAN :
                 IF take_screenshot(shot_ok) = "ok"
                 THEN CoGoto(IF co_in.button_type = "buying_options"
                             THEN "buying_options_flow" ELSE "direct_purchase_flow")
                 ELSE CoReturn(handler_result(shot_ok, outer_ok))
    /\ UNCHANGED <<co_in, co_clicks, otherThanCo>>

\* The first statements of both flows: the handle is scrolled to (a failure
\* is logged) and clicked.
ClickHandle ==
    /\ co_pc \in {"buying_options_flow", "direct_purchase_flow"}
    /\ \E regular_ok \in BOOLEAN, js_ok \in BOOLEAN :
         IF click_element(regular_ok, js_ok)
         THEN /\ co_clicks' = Append(co_clicks, co_in.button)
              /\ CoGoto(IF co_pc = "buying_options_flow"
                        THEN "buying_options_modal" ELSE "direct_checkout")
         ELSE /\ CoReturn("False")
              /\ UNCHANGED co_clicks
    /\ UNCHANGED <<co_in, co_hist, otherThanCo>>

\* _handle_buying_options_flow after the click: the wait for the offer list,
\* the search for a purchase button in it, and the click on the first one.
HandleBuyingOptionsModal ==
    /\ co_pc = "buying_options_modal"
    /\ \E modal \in {"shown", "timeout", "error"},
          found \in Sparse(NumModalSelectors, MaxHits),
          regular_ok \in BOOLEAN, js_ok \in BOOLEAN,
          shot_ok \in BOOLEAN, outer_ok \in BOOLEAN :
         LET g == find_purchase_buttons_in_modal(found) IN
         IF modal = "shown"
         THEN /\ co_hist' = [co_hist EXCEPT !.modal = "shown", !.found = found]
              /\ IF g # 0 /\ click_element(regular_ok, js_ok)
                 THEN /\ co_clicks' = Append(co_clicks, Handle("modal", g, 1))
                      /\ CoGoto("direct_checkout")
                 ELSE /\ CoReturn("False")
                      /\ UNCHANGED co_clicks
         ELSE /\ co_hist' = [co_hist EXCEPT !.modal = modal]
              /\ CoReturn(IF modal = "timeout"
                          THEN handler_result(shot_ok, outer_ok) ELSE "False")
              /\ UNCHANGED co_clicks
    /\ UNCHANGED <<co_in, otherThanCo>>

\* _complete_checkout_process, first half: _attempt_direct_checkout.  True
\* ends the purchase; on False, whatever its cause, the cart flow is tried.
AttemptDirectCheckout ==
    /\ co_pc = "direct_checkout"
    /\ \E control \in {"present", "timeout", "error"},
          click_ok \in BOOLEAN, verified \in BOOLEAN :
         /\ co_hist' = [co_hist EXCEPT
                          !.direct = IF control = "timeout" THEN "absent" ELSE control]
         /\ IF control = "present" /\ click_ok
            THEN /\ co_clicks' = Append(co_clicks, PlaceOrder)
                 /\ IF verified THEN CoReturn("True") ELSE CoGoto("cart_checkout_flow")
            ELSE /\ UNCHANGED co_clicks
                 /\ CoGoto("cart_checkout_flow")
    /\ UNCHANGED <<co_in, otherThanCo>>

\* _handle_cart_checkout_flow up to the click on 'Proceed to checkout'.
HandleCartCheckoutFlow ==
    /\ co_pc = "cart_checkout_flow"
    /\ \E in_cart \in {"yes", "no", "error"},
          found \in Sparse(NumProceedSelectors, 1),
          regular_ok \in BOOLEAN, js_ok \in BOOLEAN :
         LET g == find_proceed_to_checkout_button(found) IN
         /\ co_hist' = [co_hist EXCEPT !.cart = in_cart]
         /\ IF in_cart = "yes" /\ g # 0 /\ click_element(regular_ok, js_ok)
            THEN /\ co_clicks' = Append(co_clicks, Handle("proceed", g, 1))
                 /\ CoGoto("cart_place_order")
            ELSE /\ CoReturn("False")
                 /\ UNCHANGED co_clicks
    /\ UNCHANGED <<co_in, otherThanCo>>

\* _handle_cart_checkout_flow, the rest: the wait for the place-order button,
\* the click, and the verification.
CartPlaceOrder ==
    /\ co_pc = "cart_place_order"
    /\ \E control \in {"present", "timeout", "error"},
          click_ok \in BOOLEAN, verified \in BOOLEAN,
          shot_ok \in BOOLEAN, outer_ok \in BOOLEAN :
         IF control = "present" /\ click_ok
         THEN /\ co_clicks' = Append(co_clicks, PlaceOrder)
              /\ CoReturn(IF verified THEN "True" ELSE "False")
         ELSE /\ UNCHANGED co_clicks
              /\ CoReturn(IF control = "timeout"
                          THEN handler_result(shot_ok, outer_ok) ELSE "False")
    /\ UNCHANGED <<co_in, co_hist, otherThanCo>>

CoNext ==
    \/ AttemptPurchaseEntry
    \/ ClickHandle
    \/ HandleBuyingOptionsModal
    \/ AttemptDirectCheckout
    \/ HandleCartCheckoutFlow
    \/ CartPlaceOrder

\* No purchase flow is under observation.
CoIdle ==
    /\ co_pc = "idle"
    /\ co_in = [button |-> NoHandle, button_type |-> NoType]
    /\ co_clicks = <<>>
    /\ co_result = "none"
    /\ co_hist = NoCoHist

(***************************************************************************)
(* Encryption.encrypt and decrypt: security/encryption.py                  *)
(*                                                                         *)
(* A Fernet token is the key it was made with, the bytes it carries, and   *)
(* what has happened to it since: nothing, its base64 text damaged, or its *)
(* content damaged.                                                        *)
(***************************************************************************)
NoToken == [key |-> NoKey, data |-> <<>>, form |-> "none"]
NoDecrypt == [kind |-> "none", value |-> <<>>]

\* encrypt: fernet.encrypt(data.encode()), base64-encoded.
encrypt(data, key) == [key |-> key, data |-> Encode(data), form |-> "intact"]

Returned(value) == [kind |-> "returned", value |-> value]
Raised(type) == [kind |-> "raised", value |-> <<type>>]

\* decrypt: urlsafe_b64decode raises binascii.Error (a ValueError) on a
\* damaged text, fernet.decrypt raises InvalidToken for a token of another
\* key or with damaged content, bytes.decode raises UnicodeDecodeError (a
\* ValueError); all three are caught and `raise Exception(...)` follows.
decrypt(token, key) ==
    IF token.form = "bad_base64" THEN Raised("Exception")
    ELSE IF token.form = "tampered" \/ token.key # key THEN Raised("Exception")
    ELSE LET text == Decode(token.data) IN
         IF text = DecodeError THEN Raised("Exception") ELSE Returned(text)

DecInit ==
    dec \in [plaintext : Strings(MaxSecretLen),
             enc_key : {ValidKey(n) : n \in 1..MaxKeys},
             dec_key : {ValidKey(n) : n \in 1..MaxKeys},
             token : {NoToken},
             result : {NoDecrypt}]

\* Encryption.encrypt(plaintext) with the key enc_key.
EncryptCall ==
    /\ dec.token = NoToken
    /\ dec' = [dec EXCEPT !.token = encrypt(dec.plaintext, dec.enc_key)]
    /\ UNCHANGED otherThanDec

\* The stored ciphertext is damaged before it is read back.
CorruptToken ==
    /\ dec.token.form = "intact"
    /\ dec.result = NoDecrypt
    /\ \E form \in {"bad_base64", "tampered"} :
         dec' = [dec EXCEPT !.token.form = form]
    /\ UNCHANGED otherThanDec

\* Encryption.decrypt(token) by an Encryption whose key is dec_key.
DecryptCall ==
    /\ dec.token # NoToken
    /\ dec.result = NoDecrypt
    /\ dec' = [dec EXCEPT !.result = decrypt(dec.token, dec.dec_key)]
    /\ UNCHANGED otherThanDec

DecNext == EncryptCall \/ CorruptToken \/ DecryptCall

\* No secret is under observation.
DecIdle ==
    dec = [plaintext |-> <<>>, enc_key |-> NoKey, dec_key |-> NoKey,
           token |-> NoToken, result |-> NoDecrypt]

(***************************************************************************)
(* One Encryption instance over its lifetime: the fernet property, encrypt *)
(* and decrypt, with the keyring changed from outside in between           *)
(* (security/encryption.py).                                               *)
(***************************************************************************)
\* A fernet property that reads the keyring on every use.
cached_fernet_Reread(cached, stored) ==
    IF FernetAccepts(stored) THEN stored ELSE cached

\* The fernet property once _fernet is set: the cached instance is returned,
\* the keyring is not read.
cached_fernet(cached, stored) == cached

VaultInit ==
    /\ KeyInit
    /\ dec \in [plaintext : Strings(MaxSecretLen), enc_key : {NoKey}, dec_key : {NoKey},
                token : {NoToken}, result : {NoDecrypt}]

\* encrypt(plaintext) on the instance, after its key was loaded.
VaultEncrypt ==
    /\ fernet # NoKey
    /\ dec.token = NoToken
    /\ LET key == cached_fernet(fernet, keyring) IN
       dec' = [dec EXCEPT !.token = encrypt(dec.plaintext, key), !.enc_key = key]
    /\ UNCHANGED <<keyVars, otherThanVault>>

\* decrypt(token) on the same instance.
VaultDecrypt ==
    /\ fernet # NoKey
    /\ dec.token # NoToken
    /\ dec.result = NoDecrypt
    /\ LET key == cached_fernet(fernet, keyring) IN
       dec' = [dec EXCEPT !.result = decrypt(dec.token, key), !.dec_key = key]
    /\ UNCHANGED <<keyVars, otherThanVault>>

VaultNext == LoadKey \/ KeyringChanged \/ VaultEncrypt \/ VaultDecrypt

(***************************************************************************)
(* Config and create_config_from_args (config/settings.py, main.py).       *)
(*                                                                         *)
(* A URL is a sequence of pieces, so that startswith is a comparison of    *)
(* leading pieces; an environment value for REFRESH_INTERVAL is a sequence *)
(* of characters that int() has to parse.  An unset or empty text is <<>>  *)
(* (both are falsy).                                                       *)
(***************************************************************************)
MinRefreshInterval == 10
DefaultRefreshInterval == 60

AmazonPrefix == <<"https://", "www.amazon.com">>

StartsWith(text, prefix) ==
    /\ Len(text) >= Len(prefix)
    /\ SubSeq(text, 1, Len(prefix)) = prefix

DigitValue ==
    [c \in {"0", "1", "2", "3", "4", "5", "6", "7", "8", "9"} |->
        CASE c = "0" -> 0 [] c = "1" -> 1 [] c = "2" -> 2 [] c = "3" -> 3 [] c = "4" -> 4
          [] c = "5" -> 5 [] c = "6" -> 6 [] c = "7" -> 7 [] c = "8" -> 8 [] c = "9" -> 9]

\* int(text) raises ValueError on a text that is not a number.
IsNumber(text) == text # <<>> /\ \A i \in DOMAIN text : text[i] \in DOMAIN DigitValue

RECURSIVE ParseDigits(_, _)
ParseDigits(text, acc) ==
    IF text = <<>> THEN acc
    ELSE ParseDigits(Tail(text), 10 * acc + DigitValue[Head(text)])

\* int(os.getenv("REFRESH_INTERVAL", "60")) for a text that is unset or a
\* number.
env_refresh_interval(text) ==
    IF text = <<>> THEN DefaultRefreshInterval
    ELSE ParseDigits(text, 0)

Emails == {<<>>, <<"user@example.com">>}
EncryptedPasswords == {<<>>, <<"gAAAAAB">>}
ProductUrls ==
    {<<>>,
     <<"https://", "www.amazon.com", "/dp/B0">>,
     <<"http://", "www.amazon.com", "/dp/B0">>,
     <<"https://", "www.amazon.co.uk", "/dp/B0">>}
EnvIntervals == {<<>>, <<"5">>, <<"1", "0">>, <<"6", "0">>, <<"s", "o", "o", "n">>}
ArgIntervals == {0, 5, 30, DefaultRefreshInterval}

\* Config.__post_init__ with the product URL checked before the password.
post_init_UrlFirst(c) ==
    IF c.email = <<>> THEN "Email is required"
    ELSE IF c.product_url = <<>> THEN "Product URL is required"
    ELSE IF ~StartsWith(c.product_url, AmazonPrefix)
         THEN "Invalid product URL - must be Amazon product page"
    ELSE IF c.password_encrypted = <<>> THEN "Encrypted password is required"
    ELSE IF c.refresh_interval < MinRefreshInterval
         THEN "Refresh interval must be at least 10 seconds"
    ELSE "ok"

\* Config.__post_init__: the message of the ConfigurationError raised, or
\* "ok".
post_init(c) ==
    IF c.email = <<>> THEN "Email is required"
    ELSE IF c.password_encrypted = <<>> THEN "Encrypted password is required"
    ELSE IF c.product_url = <<>> THEN "Product URL is required"
    ELSE IF ~StartsWith(c.product_url, AmazonPrefix)
         THEN "Invalid product URL - must be Amazon product page"
    ELSE IF c.refresh_interval < MinRefreshInterval
         THEN "Refresh interval must be at least 10 seconds"
    ELSE "ok"

NoFields == [email |-> <<>>, password_encrypted |-> <<>>, product_url |-> <<>>,
             refresh_interval |-> 0]

Fields(email, password, url, seconds) ==
    [email |-> email, password_encrypted |-> password, product_url |-> url,
     refresh_interval |-> seconds]

CfgInit ==
    cfg \in [pc : {"create_config_from_env"},
             env : [email : Emails, password_encrypted : EncryptedPasswords,
                    product_url : ProductUrls, refresh_interval : EnvIntervals],
             args : [email : Emails, password_encrypted : EncryptedPasswords,
                     url : ProductUrls, interval : ArgIntervals],
             built : {NoFields}, constructions : {0}, error : {"none"},
             config : {NoFields}]

\* Config(...): the arguments of the construction and its outcome are
\* recorded; the object exists only when __post_init__ raised nothing.
Construct(fields, next, failed) ==
    LET message == post_init(fields) IN
    cfg' = [cfg EXCEPT !.built = fields,
                       !.constructions = @ + 1,
                       !.error = message,
                       !.config = IF message = "ok" THEN fields ELSE @,
                       !.pc = IF message = "ok" THEN next ELSE failed]

\* create_config_from_env, called inside the try of create_config_from_args:
\* a missing email or URL raises ConfigurationError before any Config is
\* built, int() raises ValueError, and Config(...) may raise; each of them
\* is caught and leads to the construction from the arguments.
CreateConfigFromEnv ==
    /\ cfg.pc = "create_config_from_env"
    /\ LET e == cfg.env
           unparsable == e.refresh_interval # <<>> /\ ~IsNumber(e.refresh_interval) IN
       IF e.email = <<>> \/ e.product_url = <<>> \/ unparsable
       THEN cfg' = [cfg EXCEPT !.pc = "from_args"]
       ELSE Construct(Fields(e.email, e.password_encrypted, e.product_url,
                             env_refresh_interval(e.refresh_interval)),
                      "override", "from_args")
    /\ UNCHANGED otherThanCfg

\* The except branch: Config(email=args.email or "", ...) with the default
\* interval; its ConfigurationError leaves create_config_from_args.
ConfigFromArgs ==
    /\ cfg.pc = "from_args"
    /\ LET a == cfg.args IN
       Construct(Fields(a.email, a.password_encrypted, a.url, DefaultRefreshInterval),
                 "override", "raised")
    /\ UNCHANGED otherThanCfg

\* The overrides: each truthy argument is assigned to the attribute of the
\* Config already built, and the Config is returned.
OverrideWithArgs ==
    /\ cfg.pc = "override"
    /\ LET a == cfg.args
           c == cfg.config IN
       cfg' = [cfg EXCEPT
                 !.config = Fields(IF a.email # <<>> THEN a.email ELSE c.email,
                                   IF a.password_encrypted # <<>>
                                   THEN a.password_encrypted ELSE c.password_encrypted,
                                   IF a.url # <<>> THEN a.url ELSE c.product_url,
                                   IF a.interval # 0 THEN a.interval ELSE c.refresh_interval),
                 !.pc = "returned"]
    /\ UNCHANGED otherThanCfg

CfgNext == CreateConfigFromEnv \/ ConfigFromArgs \/ OverrideWithArgs

\* create_config_from_args is not running.
CfgIdle ==
    cfg = [pc |-> "idle", env |-> NoFields, args |-> NoFields, built |-> NoFields,
           constructions |-> 0, error |-> "none", config |-> NoFields]

(***************************************************************************)
(* BrowserManager on its own, under any sequence of get_driver(),          *)
(* cleanup() and PreorderMonitor.stop() calls (core/monitor.py).  Drivers  *)
(* are numbered in the order of their creation; 0 is None.                 *)
(***************************************************************************)
MaxDrivers == 3

DriverIds == 1..MaxDrivers

\* A get_driver that creates a driver on every call.
get_driver_Fresh(held, created, create_ok) ==
    IF create_ok THEN [driver |-> created + 1, created |-> created + 1]
    ELSE [driver |-> held, created |-> created]

\* get_driver: the driver held, or a new one when none is held; when
\* _create_driver raises, none is held afterwards either.
get_driver(held, created, create_ok) ==
    IF held # 0 THEN [driver |-> held, created |-> created]
    ELSE IF create_ok THEN [driver |-> created + 1, created |-> created + 1]
    ELSE [driver |-> 0, created |-> created]

Held(d) == IF d = 0 THEN "none" ELSE "live"

BmInit ==
    bm = [driver |-> 0, created |-> 0, quit_calls |-> [i \in DriverIds |-> 0],
          quit_raised |-> {}, call |-> "none", held_before |-> 0, is_running |-> TRUE]

BmGetDriver ==
    /\ bm.driver # 0 \/ bm.created < MaxDrivers
    /\ \E create_ok \in BOOLEAN :
         LET r == get_driver(bm.driver, bm.created, create_ok) IN
         bm' = [bm EXCEPT !.driver = r.driver, !.created = r.created,
                          !.call = "get_driver", !.held_before = bm.driver]
    /\ UNCHANGED otherThanBm

\* cleanup(): quit() is called on the driver held, it may raise, and the
\* finally clause forgets the driver.
BmCleanup ==
    /\ \E quit_ok \in BOOLEAN :
         LET r == cleanup(Held(bm.driver)) IN
         bm' = [bm EXCEPT
                  !.driver = IF r.driver = "none" THEN 0 ELSE @,
                  !.quit_calls = IF r.quit = 1
                                 THEN [@ EXCEPT ![bm.driver] = @ + 1] ELSE @,
                  !.quit_raised = IF r.quit = 1 /\ ~quit_ok THEN @ \cup {bm.driver} ELSE @,
                  !.call = "cleanup", !.held_before = bm.driver]
    /\ UNCHANGED otherThanBm

\* PreorderMonitor.stop() of a monitor that has this manager.
BmStop ==
    /\ \E quit_ok \in BOOLEAN :
         LET r == stop(TRUE, Held(bm.driver)) IN
         bm' = [bm EXCEPT
                  !.is_running = r.is_running,
                  !.driver = IF r.driver = "none" THEN 0 ELSE @,
                  !.quit_calls = IF r.quit = 1
                                 THEN [@ EXCEPT ![bm.driver] = @ + 1] ELSE @,
                  !.quit_raised = IF r.quit = 1 /\ ~quit_ok THEN @ \cup {bm.driver} ELSE @,
                  !.call = "stop", !.held_before = bm.driver]
    /\ UNCHANGED otherThanBm

BmNext == BmGetDriver \/ BmCleanup \/ BmStop

\* No manager is under observation.
BmIdle ==
    bm = [driver |-> 0, created |-> 0, quit_calls |-> [i \in DriverIds |-> 0],
          quit_raised |-> {}, call |-> "idle", held_before |-> 0, is_running |-> FALSE]

(***************************************************************************)
(* Specifications                                                          *)
(***************************************************************************)
Init == MonInit /\ SecIdle /\ KeyIdle /\ AuthIdle /\ ClIdle /\ SchedIdle /\ CoIdle /\ DecIdle /\ CfgIdle /\ BmIdle
Next == MonNext
Spec == Init /\ [][Next]_vars

\* No run of the monitor is under observation.
MonIdle ==
    /\ pc = "idle"
    /\ has_manager = FALSE
    /\ refresh_interval = 60
    /\ is_running = FALSE
    /\ session_check_counter = 0
    /\ check_count = 0
    /\ driver = "none"
    /\ interval = 0
    /\ verdict = NoVerdict
    /\ purchase_verdict = NoVerdict
    /\ outcome = "none"
    /\ exit_reason = "none"
    /\ tick = 0
    /\ invalid_verdicts = 0
    /\ logins = 0
    /\ login_failed = FALSE
    /\ purchase_call = NoCall
    /\ purchases_ok = 0
    /\ purchase_failed = FALSE
    /\ cleanups = 0
    /\ quits = 0
    /\ drivers_created = 0
    /\ after_success = 0
    /\ after_failed_login = 0
    /\ periodic = "none"
    /\ in_flight = <<>>
    /\ entered = FALSE
    /\ step_raised = FALSE

\* The run of start() with calls of stop() from outside it.
NextExternal == MonNext \/ ExternalStop
SpecExternal == Init /\ [][NextExternal]_vars

\* The steps start() and the loop take by themselves: each call, browser
\* step and sleep returns, so the one that is due is eventually taken.  The
\* interrupt and the clearing of the flag come from outside.
LoopStep ==
    \/ Start \/ GetDriver \/ EnterStep \/ InitQuickCheck \/ InitLogin \/ LoopTop
    \/ ShouldCheckSession \/ HandleSessionCheck \/ HandleSessionLogin
    \/ ShouldDoRandomBrowsing \/ HandleRandomBrowsing \/ CheckAvailability
    \/ AttemptPurchaseProbe \/ AttemptPurchase \/ Sleep \/ Stop
\* The configurations whose interval is not randomised (refresh_interval
\* <= 20): the length of the sleep has no part in whether the loop returns.
InitLive == Init /\ refresh_interval <= 20
SpecLive == InitLive /\ [][Next]_vars /\ WF_vars(LoopStep)

InitSecure == SecInit /\ MonIdle /\ KeyIdle /\ AuthIdle /\ ClIdle /\ SchedIdle /\ CoIdle /\ DecIdle /\ CfgIdle /\ BmIdle
SpecSecure == InitSecure /\ [][SecNext]_vars

InitKey == KeyInit /\ MonIdle /\ SecIdle /\ AuthIdle /\ ClIdle /\ SchedIdle /\ CoIdle /\ DecIdle /\ CfgIdle /\ BmIdle
SpecKey == InitKey /\ [][KeyNext]_vars

InitAuth == AuthInit /\ MonIdle /\ SecIdle /\ KeyIdle /\ ClIdle /\ SchedIdle /\ CoIdle /\ DecIdle /\ CfgIdle /\ BmIdle
SpecAuth == InitAuth /\ [][AuthNext]_vars

InitClassify == ClInit /\ MonIdle /\ SecIdle /\ KeyIdle /\ AuthIdle /\ SchedIdle /\ CoIdle /\ DecIdle /\ CfgIdle /\ BmIdle
SpecClassify == InitClassify /\ [][ClNext]_vars

InitSched == SchedInit /\ MonIdle /\ SecIdle /\ KeyIdle /\ AuthIdle /\ ClIdle /\ CoIdle /\ DecIdle /\ CfgIdle /\ BmIdle
SpecSched == InitSched /\ [][SchedNext]_vars

InitCheckout == CoInit /\ MonIdle /\ SecIdle /\ KeyIdle /\ AuthIdle /\ ClIdle /\ SchedIdle /\ DecIdle /\ CfgIdle /\ BmIdle
SpecCheckout == InitCheckout /\ [][CoNext]_vars

InitDecrypt == DecInit /\ MonIdle /\ SecIdle /\ KeyIdle /\ AuthIdle /\ ClIdle /\ SchedIdle /\ CoIdle /\ CfgIdle /\ BmIdle
SpecDecrypt == InitDecrypt /\ [][DecNext]_vars

InitConfig == CfgInit /\ MonIdle /\ SecIdle /\ KeyIdle /\ AuthIdle /\ ClIdle /\ SchedIdle /\ CoIdle /\ DecIdle /\ BmIdle
SpecConfig == InitConfig /\ [][CfgNext]_vars

InitBrowser == BmInit /\ MonIdle /\ SecIdle /\ KeyIdle /\ AuthIdle /\ ClIdle /\ SchedIdle /\ CoIdle /\ DecIdle /\ CfgIdle
SpecBrowser == InitBrowser /\ [][BmNext]_vars

InitVault == VaultInit /\ MonIdle /\ SecIdle /\ AuthIdle /\ ClIdle /\ SchedIdle /\ CoIdle /\ CfgIdle /\ BmIdle
SpecVault == InitVault /\ [][VaultNext]_vars

(***************************************************************************)
(* Properties of the run                                                   *)
(***************************************************************************)
Ended == pc = "done"

C5_Original ==
    periodic = "invalid" =>
        (pc \in {"stopping", "done"} /\ exit_reason = "session_failed")

\* C5, amended: a periodic full check that returns Invalid is followed by one
\* login; the run goes to Failed exactly when that login fails (and then
\* nothing more is done in the browser), and the tick goes on when it succeeds.
C5_PeriodicInvalid ==
    /\ periodic = "invalid" => (pc = "tick_login" \/ outcome = "interrupt")
    /\ periodic = "relogin_failed" =>
           /\ pc \in {"stopping", "done"}
           /\ outcome = "returned_false"
           /\ exit_reason = "session_failed"
           /\ after_failed_login = 0
    /\ exit_reason = "session_failed" => periodic = "relogin_failed"
    /\ periodic = "relogin_ok" => exit_reason \notin {"init_failed", "session_failed"}

\* A run that failed in a periodic check, after the re-login failed.
C5_Witness ==
    Ended /\ periodic = "relogin_failed" /\ exit_reason = "session_failed"

\* C6: every session check that returns Invalid (the quick check or a periodic
\* full check) is followed by exactly one login: the logins never outnumber
\* the Invalid verdicts, and fall short of them by one only while the login
\* for the last verdict is about to start (or a user interrupt ended the run
\* at that point).
C6_OneLoginPerInvalid ==
    /\ logins <= invalid_verdicts
    /\ invalid_verdicts <= logins + 1
    /\ pc \in {"init_login", "tick_login"} => logins + 1 = invalid_verdicts
    /\ (logins < invalid_verdicts /\ pc \notin {"init_login", "tick_login"})
           => outcome = "interrupt"

\* The quick check and a later periodic check were both Invalid, each with its
\* login made.
C6_Witness ==
    invalid_verdicts = 2 /\ logins = 2 /\ pc = "tick_browse"

\* C7: after a failed login the run is over with the loop's result False: no
\* browser operation (login, probe, purchase or other) starts after it.
C7_FailedLoginIsFatal ==
    /\ after_failed_login = 0
    /\ login_failed =>
           /\ pc \in {"stopping", "done"}
           /\ outcome = "returned_false"
           /\ exit_reason \in {"init_failed", "session_failed"}

\* A run ended by the failure of the initial login.
C7_Witness ==
    Ended /\ login_failed /\ exit_reason = "init_failed" /\ logins = 1

\* C8: a failed purchase attempt does not end the run: after it the loop is at
\* the sleep, then at the while test, then in the next tick; the run ends there
\* only by a user interrupt or because is_running was cleared.
C8_FailedPurchaseGoesOn ==
    /\ purchase_failed =>
           \/ pc \in {"tick_sleep", "loop_top", "tick_session"}
           \/ pc \in {"stopping", "done"} /\ exit_reason \in {"interrupt", "stopped"}
    /\ exit_reason = "stopped" => ~is_running
    /\ (pc = "tick_sleep" /\ purchase_failed) => interval \in calculate_interval(refresh_interval)

\* A new tick has started after the purchase attempt of the previous one failed.
C8_Witness ==
    pc = "tick_session" /\ purchase_failed /\ is_running /\ tick > 1

\* C9: a successful purchase halts the run: the loop returns True, nothing is
\* done in the browser afterwards, and a run has at most one successful
\* purchase.
C9_SuccessHalts ==
    /\ purchases_ok <= 1
    /\ after_success = 0
    /\ purchases_ok = 1 <=> outcome = "returned_true"
    /\ purchases_ok = 1 => (pc \in {"stopping", "done"} /\ exit_reason = "purchased")

\* A run ended by a purchase made in a later tick.
C9_Witness ==
    Ended /\ purchases_ok = 1 /\ outcome = "returned_true" /\ tick > 1

\* No page without a matching purchase selector is classified as available.
UnpurchasablePagesRejected ==
    \A p \in Pages :
        ((\A g \in 1..NumDirectSelectors : p.direct[g] <= 0) /\
         (\A g \in 1..NumBuyingSelectors : p.buying[g] <= 0))
            => check_availability(p) = NotAvailable

\* C10: attempt_purchase is called only with a handle and a type 'direct' or
\* 'buying_options', both taken from a verdict that says available; a page
\* with only an unavailability phrase, or nothing recognisable, is classified
\* (not available, no handle, no type).
C10_PurchaseOnlyWhenPurchasable ==
    /\ pc = "tick_purchase" => (verdict.available /\ purchase_verdict.available)
    /\ purchase_call # NoCall =>
           /\ purchase_call.button # NoHandle
           /\ purchase_call.button_type \in {"direct", "buying_options"}
           /\ \E v \in Verdicts :
                /\ v.available
                /\ v.button = purchase_call.button
                /\ v.button_type = purchase_call.button_type
    /\ UnpurchasablePagesRejected

\* A purchase was attempted through a buying-options button.
C10_Witness ==
    purchase_call # NoCall /\ purchase_call.button_type = "buying_options"

(***************************************************************************)
(* Properties of the credential handling                                   *)
(***************************************************************************)
\* C1: once use_secret has returned or raised, no byte of the secret is left
\* at its place in the buffer.
C1_WipedAfterUse ==
    ss_state \in {"returned", "raised"} =>
        \A i \in 1..Len(Encode(ss_secret)) : ss_buffer[i] # Encode(ss_secret)[i]

\* C2: the plaintext of the secret is never written to the log.
C2_NoPlaintextLogged == Secret \notin logged

\* C3: a stored key that fails validation makes loading fail, the stored
\* value is kept and nothing is generated; a key is generated and stored by
\* loading only when nothing is stored.
C3_InvalidKeyIsHardFailure ==
    /\ (last_load.found = InvalidKey /\ last_load.result # "none") =>
           /\ last_load.result = "error"
           /\ last_load.left = last_load.found
           /\ ~last_load.generated
    /\ last_load.generated => last_load.found = Absent

(***************************************************************************)
(* Properties of the classifiers                                           *)
(***************************************************************************)
\* The bot-detection signals the program knows (the list of the quick check,
\* which holds the two signals of the full check).
BlockingSignals == quick_bot_detection_indicators \cup full_block_indicators

\* C11: a snapshot that holds a blocking signal is never classified valid,
\* by the quick check (signal in the page source or the URL) or by the full
\* check (signal in the page source), whatever else the snapshot holds.
C11_BlockedIsInvalid ==
    /\ (/\ cl_kind = "quick"
        /\ cl_result.done
        /\ \E ind \in BlockingSignals :
               Contains(cl_input.src, ind) \/ Contains(cl_input.url, ind))
       => cl_result.session # "valid"
    /\ (/\ cl_kind = "full"
        /\ cl_result.done
        /\ \E ind \in BlockingSignals : Contains(cl_input.src, ind))
       => cl_result.session = "invalid"

\* The first direct-purchase selector of the page with a match.
FirstDirect(page) ==
    CHOOSE g \in 1..NumDirectSelectors :
        /\ page.direct[g] > 0
        /\ \A h \in 1..(g - 1) : page.direct[h] <= 0

HasDirect(page) == \E g \in 1..NumDirectSelectors : page.direct[g] > 0
HasBuying(page) == \E g \in 1..NumBuyingSelectors : page.buying[g] > 0

\* C12: on a loaded page with a direct-purchase match the verdict is
\* available, "direct", with the first element of the first matching
\* selector, whatever unavailability phrases and buying-options matches the
\* page also has.
C12_DirectOutranks ==
    (cl_kind = "page" /\ cl_result.done /\ cl_input.nav_ok /\ HasDirect(cl_input)) =>
        cl_result.verdict = [available |-> TRUE,
                             button |-> Handle("direct", FirstDirect(cl_input), 1),
                             button_type |-> "direct"]

C12_Witness ==
    /\ cl_kind = "page"
    /\ cl_result.done
    /\ cl_input.nav_ok
    /\ cl_input.source_ok
    /\ HasDirect(cl_input)
    /\ FirstDirect(cl_input) > 1
    /\ cl_input.texts # {}

\* C13: a snapshot with no signal at all is classified invalid by both
\* session checks (the quick check when its finally clause does not raise),
\* and a page with no signal is classified not available.
C13_NoSignalsIsNegative ==
    /\ (/\ cl_kind = "quick"
        /\ cl_result.done
        /\ cl_input.reset_ok
        /\ cl_input.src = {}
        /\ cl_input.url = {}
        /\ cl_input.account = NoElement)
       => cl_result.session = "invalid"
    /\ (/\ cl_kind = "full"
        /\ cl_result.done
        /\ cl_input.src = {}
        /\ \A g \in 1..NumPositiveIndicators : cl_input.positive[g] = <<>>)
       => cl_result.session = "invalid"
    /\ (/\ cl_kind = "page"
        /\ cl_result.done
        /\ ~HasDirect(cl_input)
        /\ ~HasBuying(cl_input)
        /\ cl_input.texts = {})
       => cl_result.verdict = NotAvailable

C13_Witness ==
    /\ cl_kind = "full"
    /\ cl_result.done
    /\ cl_input.load_ok
    /\ cl_input.src = {}
    /\ \A g \in 1..NumPositiveIndicators : cl_input.positive[g] = <<>>

(***************************************************************************)
(* Properties of the scheduler                                             *)
(***************************************************************************)
\* C14: from a counter of 0, _should_check_session fires on the N-th call
\* since it last fired (or since the start) with N in 5..10, never earlier
\* and never later; the counter counts those calls and never exceeds 10.
C14_FiresEveryFiveToTen ==
    sched_fn = "session" =>
        /\ sched_hist.last_gap \in {0} \cup 5..10
        /\ sched_hist.since_fire <= 9
        /\ sched.session_check_counter = sched_hist.since_fire
        /\ sched.session_check_counter <= 10
        /\ (sched_hist.calls > 0 /\ sched_hist.fired) => sched_hist.last_gap >= 5

C14_Witness ==
    /\ sched_fn = "session"
    /\ sched_hist.fired
    /\ sched_hist.last_gap = 10
    /\ sched_hist.draw = 5

\* C15: _calculate_interval returns the base when the base is at most 20 and
\* a value within 10 of the base when it is above; 15 gives 15 and 60 gives a
\* value in 50..70.
C15_IntervalRange ==
    (sched_fn = "interval" /\ sched_hist.calls = 1) =>
        /\ sched.refresh_interval <= 20 => sched.interval = sched.refresh_interval
        /\ sched.refresh_interval > 20 =>
               /\ sched.interval >= sched.refresh_interval - 10
               /\ sched.interval <= sched.refresh_interval + 10
        /\ sched.refresh_interval = 15 => sched.interval = 15
        /\ sched.refresh_interval = 60 => sched.interval \in 50..70

C15_Witness ==
    /\ sched_fn = "interval"
    /\ sched_hist.calls = 1
    /\ sched.refresh_interval = 21
    /\ sched.interval = 11

\* C16, as claimed: each counter changes only by +1 or by a reset to 0, and
\* is 0 after a call of its function that fired.
C16_Original ==
    [][ /\ sched'.session_check_counter # sched.session_check_counter =>
               sched'.session_check_counter \in {sched.session_check_counter + 1, 0}
        /\ sched'.check_count # sched.check_count =>
               sched'.check_count \in {sched.check_count + 1, 0}
        /\ (sched_fn = "session" /\ sched_hist'.fired) => sched'.session_check_counter = 0
        /\ (sched_fn = "browsing" /\ sched_hist'.fired) => sched'.check_count = 0
      ]_vars

\* C16, amended: the session counter changes only by +1 or by a reset to 0
\* and is reset by each call that fires; the browsing count changes only by
\* +1, on every call, and is never reset.
C16_CounterSteps ==
    [][ /\ sched'.session_check_counter # sched.session_check_counter =>
               sched'.session_check_counter \in {sched.session_check_counter + 1, 0}
        /\ (sched_fn = "session" /\ sched_hist'.fired) => sched'.session_check_counter = 0
        /\ (sched_fn = "session" /\ ~sched_hist'.fired) =>
               sched'.session_check_counter = sched.session_check_counter + 1
        /\ sched_fn = "browsing" => sched'.check_count = sched.check_count + 1
        /\ sched_fn # "browsing" => sched'.check_count = sched.check_count
      ]_vars

C16_Witness ==
    /\ sched_fn = "browsing"
    /\ sched_hist.fired
    /\ sched.check_count >= 8

\* C17: a call of _should_do_random_browsing fires exactly when the count,
\* which it has just incremented, is a multiple of its draw from 8..12; the
\* first call does not fire.
C17_FiresOnMultiples ==
    (sched_fn = "browsing" /\ sched_hist.calls > 0) =>
        /\ sched_hist.draw \in 8..12
        /\ sched.check_count = sched_hist.calls
        /\ sched_hist.fired <=>
               \E k \in 1..MaxCalls + 1 : sched.check_count = k * sched_hist.draw
        /\ sched_hist.calls = 1 => ~sched_hist.fired

C17_Witness ==
    /\ sched_fn = "browsing"
    /\ sched_hist.fired
    /\ sched.check_count = 2 * sched_hist.draw

\* ---------------------------------------------------------------------------
\* External stop, concurrency of the automation sequences, and the outcome
\* of a run (core/monitor.py, start / stop / _monitoring_loop)
\* ---------------------------------------------------------------------------

\* The sequences that use the browser over several steps.
MultiStep == {"auth", "probe", "purchase"}

\* C18: an external stop takes effect only at a tick boundary: while an
\* authentication, availability-probe or purchase step is in flight the
\* browser is still there, and a run that ends because the flag was cleared
\* ends with no step in flight.
C18_StopOnlyAtTickBoundary ==
    /\ \A i \in 1..Len(in_flight) : in_flight[i] \in MultiStep => driver = "live"
    /\ (pc \in {"stopping", "done"} /\ exit_reason = "stopped") => in_flight = <<>>

\* C19: at most one automation sequence is in progress on the browser, and
\* so at most one authentication; the one in progress is the one the loop
\* is inside.
C19_OneSequenceInFlight ==
    /\ Len(in_flight) <= 1
    /\ Cardinality({i \in 1..Len(in_flight) : in_flight[i] = "auth"}) <= 1
    /\ entered <=> in_flight # <<>>
    /\ entered => (pc \in StepPositions /\ in_flight = <<SequenceAt(pc)>>)

\* A periodic re-login is in flight, after an earlier sequence has completed.
C19_Witness ==
    /\ in_flight = <<"auth">>
    /\ pc = "tick_login"
    /\ tick > 1

\* The ways a run can end other than by a purchase, with the reason.
FailedReasons ==
    [returned_false |-> {"init_failed", "session_failed", "stopped"},
     exception |-> {"get_driver", "sleep"},
     interrupt |-> {"interrupt"}]

C21_CallbackGetsSecret ==
    /\ ss_state = "in_callback" => ss_arg = ss_secret
    /\ ss_state = "raised" => ss_error = "callback"

\* C22: after destruction every byte of the buffer that held the encoded
\* secret is zero.
C22_DestroyedIsZeroed ==
    ss_state = "destroyed" =>
        \A i \in 1..Len(Encode(ss_secret)) : ss_buffer[i] = 0

\* ---------------------------------------------------------------------------
\* The session checks on pages without a blocking signal
\* (amazon/auth.py is_session_valid, core/monitor.py _quick_session_check)
\* ---------------------------------------------------------------------------

\* An element text that is not empty and is not the logged-out greeting.
LoggedInText(t) == t \notin {"", "  ", "Hello, sign in"}

HasLoggedInElement(snap) ==
    \E g \in 1..NumPositiveIndicators :
        \E i \in 1..Len(snap.positive[g]) : LoggedInText(snap.positive[g][i])

\* C23: on a loaded page with no blocking signal the full check returns
\* valid exactly when some positive-indicator element has a text that is
\* not empty and not the logged-out greeting; otherwise it returns invalid,
\* with or without a sign-in prompt on the page.
C23_ValidIffLoggedInElement ==
    (/\ cl_kind = "full"
     /\ cl_result.done
     /\ cl_input.load_ok
     /\ ~\E ind \in BlockingSignals : Contains(cl_input.src, ind))
    => /\ cl_result.session \in {"valid", "invalid"}
       /\ cl_result.session = "valid" <=> HasLoggedInElement(cl_input)

\* A page with a sign-in prompt in its source and, after the greeting
\* element, an element that shows a name: classified valid.
C23_Witness ==
    /\ cl_kind = "full"
    /\ cl_result.done
    /\ cl_input.load_ok
    /\ cl_input.src = {"hello, sign in"}
    /\ cl_input.positive[3] = <<"Hello, sign in", "Hello, John">>
    /\ cl_result.session = "valid"

\* C24: a quick check of a loaded page with no blocking signal, no sign-in
\* prompt and an account element that shows a logged-in greeting returns
\* valid.
C24_QuickValidOnGreeting ==
    (/\ cl_kind = "quick"
     /\ cl_result.done
     /\ cl_input.load_ok
     /\ cl_input.reset_ok
     /\ ~\E ind \in BlockingSignals :
            Contains(cl_input.src, ind) \/ Contains(cl_input.url, ind)
     /\ ~\E ind \in quick_sign_in_indicators : Contains(cl_input.src, ind)
     /\ cl_input.account = "Hello, John")
    => cl_result.session = "valid"

\* ---------------------------------------------------------------------------
\* The purchase step of a tick (core/monitor.py, _monitoring_loop 88-94,
\* _attempt_purchase)
\* ---------------------------------------------------------------------------

\* C25: a tick whose availability check returned an available verdict calls
\* attempt_purchase, and calls it with the button and type of that verdict.
C25_PurchaseUsesTickVerdict ==
    /\ (pc = "tick_sleep" /\ verdict.available) => purchase_call # NoCall
    /\ (purchase_call # NoCall /\ verdict.available) =>
           purchase_call = [button |-> verdict.button,
                            button_type |-> verdict.button_type]

\* ---------------------------------------------------------------------------
\* The purchase flow (amazon/checkout.py)
\* ---------------------------------------------------------------------------

IsProceedClick(c) == Len(c) = 3 /\ c[1] = "proceed"

\* C26: the cart flow is not entered when the place-order control of the
\* one-step checkout was there within the wait; the checkout starts only
\* after the handle was clicked; and a cart flow that finds no cart context
\* ends with False and clicks nothing.
C26_CartOnlyWhenControlAbsent ==
    /\ co_hist.cart # "unseen" => co_hist.direct # "present"
    /\ co_hist.direct # "unseen" => (co_clicks # <<>> /\ co_clicks[1] = co_in.button)
    /\ co_hist.cart = "no" =>
          /\ co_result = "False"
          /\ \A i \in 1..Len(co_clicks) : ~IsProceedClick(co_clicks[i])

\* The kinds of purchase control the modal is searched for, by selector.
ModalKind(g) ==
    CASE g \in {1, 2} -> "pre-order"
      [] g \in {3, 4} -> "add-to-cart"
      [] g = 5 -> "buy-now"

ModalKindRank(k) ==
    CASE k = "pre-order" -> 1 [] k = "add-to-cart" -> 2 [] k = "buy-now" -> 3

ModalMatches(found) == {g \in 1..NumModalSelectors : found[g] > 0}

\* C27: in the buying-options flow the handle is clicked first; the next
\* click is on a control of the offer list of the best kind the list has,
\* in the order pre-order, add-to-cart, buy-now; when the list does not
\* appear or holds no such control the flow ends with False and nothing but
\* the handle was clicked.
C27_BuyingOptionsPriority ==
    co_in.button_type = "buying_options" =>
        /\ co_clicks # <<>> => co_clicks[1] = co_in.button
        /\ Len(co_clicks) >= 2 =>
              /\ co_hist.modal = "shown"
              /\ \E g \in ModalMatches(co_hist.found) :
                   /\ co_clicks[2] = Handle("modal", g, 1)
                   /\ \A h \in ModalMatches(co_hist.found) :
                        /\ ModalKindRank(ModalKind(g)) <= ModalKindRank(ModalKind(h))
                        /\ g <= h
        /\ (\/ co_hist.modal \in {"timeout", "error"}
            \/ (co_hist.modal = "shown" /\ ModalMatches(co_hist.found) = {}))
           => (co_pc = "done" /\ co_result = "False" /\ co_clicks = <<co_in.button>>)

\* The list holds an add-to-cart and a buy-now control and no pre-order
\* control; the add-to-cart control was clicked.
C27_Witness ==
    /\ co_in.button_type = "buying_options"
    /\ co_hist.modal = "shown"
    /\ ModalMatches(co_hist.found) = {4, 5}
    /\ Len(co_clicks) >= 2
    /\ co_clicks[2] = Handle("modal", 4, 1)

C29_StepFailuresAreCaught ==
    /\ outcome = "exception" => exit_reason \in {"get_driver", "sleep"}
    /\ (step_raised /\ pc \in {"stopping", "done"}) =>
          \/ (tick = 0 /\ exit_reason = "init_failed")
          \/ (tick > 0 /\ exit_reason = "session_failed" /\ login_failed)
    /\ (pc \in {"stopping", "done"} /\ tick > 0 /\ outcome = "returned_false") =>
          /\ exit_reason \in {"session_failed", "stopped"}
          /\ exit_reason = "session_failed" => login_failed

\* The purchase step of a later tick failed inside and the run goes on.
C29_Witness ==
    /\ step_raised
    /\ pc = "tick_sleep"
    /\ purchase_failed
    /\ is_running
    /\ tick > 1

\* ---------------------------------------------------------------------------
\* Decryption failures (security/encryption.py, decrypt)
\* ---------------------------------------------------------------------------

\* C30: decrypting with another key than the one the token was made with,
\* or a damaged token, raises DecryptionError and returns nothing.
C30_WrongKeyIsDecryptionError ==
    (/\ dec.result # NoDecrypt
     /\ (dec.token.key # dec.dec_key \/ dec.token.form # "intact"))
    => dec.result = Raised("DecryptionError")

\* ---------------------------------------------------------------------------
\* The round trip through one Encryption instance (security/encryption.py)
\* ---------------------------------------------------------------------------

\* C31: what an instance decrypts from a token it encrypted is the plaintext
\* it encrypted, whatever happened to the keyring in between.
C31_RoundTrip ==
    dec.result # NoDecrypt => dec.result = Returned(dec.plaintext)

\* A round trip of a two-character secret with a two-byte character, with
\* the keyring holding another key than the instance at the end.
C31_Witness ==
    /\ dec.result = Returned(dec.plaintext)
    /\ Len(dec.plaintext) = 2
    /\ dec.plaintext[1] = "e_acute"
    /\ keyring # fernet
    /\ keyring.kind = "valid"

\* ---------------------------------------------------------------------------
\* Configuration (config/settings.py, main.py)
\* ---------------------------------------------------------------------------

\* The validation rules as the specification lists them, in its order.
FirstFailedRule(c) ==
    CASE c.email = <<>> -> "Email is required"
      [] c.email # <<>> /\ c.password_encrypted = <<>> -> "Encrypted password is required"
      [] c.email # <<>> /\ c.password_encrypted # <<>> /\ c.product_url = <<>> ->
            "Product URL is required"
      [] c.email # <<>> /\ c.password_encrypted # <<>> /\ c.product_url # <<>>
         /\ ~StartsWith(c.product_url, AmazonPrefix) ->
            "Invalid product URL - must be Amazon product page"
      [] OTHER -> IF c.refresh_interval < 10
                  THEN "Refresh interval must be at least 10 seconds" ELSE "ok"

SatisfiesRules(c) ==
    /\ c.email # <<>>
    /\ c.password_encrypted # <<>>
    /\ StartsWith(c.product_url, AmazonPrefix)
    /\ c.refresh_interval >= 10

C39_ReturnedConfigIsValid ==
    cfg.pc = "returned" => SatisfiesRules(cfg.config)

\* ---------------------------------------------------------------------------
\* The BrowserManager under any sequence of calls (core/monitor.py)
\* ---------------------------------------------------------------------------

\* The drivers created on which quit() has not been called.
LiveDrivers == {i \in 1..bm.created : bm.quit_calls[i] = 0}

PlaceOrderClicks == {i \in DOMAIN co_clicks : co_clicks[i] = PlaceOrder}

\* C36: within one purchase attempt the order-placement control is clicked
\* at most once, the one-step checkout and the cart flow taken together.
C36_PlaceOrderClickedOnce ==
    Cardinality(PlaceOrderClicks) <= 1

\* ---------------------------------------------------------------------------
\* The order of the steps of a login attempt (amazon/auth.py)
\* ---------------------------------------------------------------------------

LoginOrder == <<"navigate", "identity", "unlock", "secret", "prompts", "verify">>

\* The attempt ended in the submission of the identity.
IdentityFailed == auth_pc = "done" /\ steps = SubSeq(LoginOrder, 1, 2)

\* C33: the steps of a login attempt are taken in the order navigate,
\* identity, unlock, secret, prompts, verify; the secret is unlocked at most
\* once, and not at all when the submission of the identity fails.
C33_LoginStepOrder ==
    /\ Len(steps) <= Len(LoginOrder)
    /\ steps = SubSeq(LoginOrder, 1, Len(steps))
    /\ unlocks <= 1
    /\ unlocks = Cardinality({i \in DOMAIN steps : steps[i] = "unlock"})
    /\ IdentityFailed => unlocks = 0

\* A login that went through all six steps and succeeded, having unlocked
\* the secret once.
C33_Witness ==
    /\ auth_pc = "done"
    /\ login_result = "true"
    /\ steps = LoginOrder
    /\ unlocks = 1

\* C37: within one login attempt the sign-in control is looked up and
\* clicked once after the secret was entered, so that no later search for it
\* can fail a login whose submission was accepted.
C37_SigninLookedUpOnce ==
    /\ signin_lookups <= 1
    /\ signin_clicks <= 1
    /\ ~(auth_pc = "done" /\ login_result = "false" /\ signin_clicks = 1
         /\ signin_lookups = 2 /\ auth_page = NoPage)

\* ---------------------------------------------------------------------------
\* The order of the steps of a tick, and the flag (core/monitor.py)
\* ---------------------------------------------------------------------------

TickOrder == <<"tick_session", "tick_fullcheck", "tick_login", "tick_browse",
               "tick_browsing", "tick_avail", "tick_reprobe", "tick_purchase",
               "tick_sleep">>

TickPositions == {TickOrder[i] : i \in DOMAIN TickOrder}

PlaceInTick(p) == CHOOSE i \in DOMAIN TickOrder : TickOrder[i] = p

\* C34: inside a tick the steps are taken in the order session check (full
\* check, login), filler (browsing), availability probe, purchase, sleep;
\* only the sleep leads to the next tick; and the probe and the purchase are
\* reached only with this tick's session check, if it fired, passed.
C34_TickOrder ==
    [][/\ (pc' # pc /\ pc \in TickPositions /\ pc' \in TickPositions) =>
             PlaceInTick(pc') > PlaceInTick(pc)
       /\ (pc' # pc /\ pc' = "loop_top") => pc \in {"tick_sleep", "init_quick", "init_login"}
       /\ (pc' # pc /\ pc = "loop_top") => pc' \in {"tick_session", "stopping"}
       /\ pc' \in {"tick_avail", "tick_reprobe", "tick_purchase"} =>
             periodic' \in {"none", "valid", "relogin_ok"}
       /\ pc' = "tick_purchase" => (verdict'.available /\ purchase_verdict'.available)]_vars

\* A tick in which the session check fired and ended in a login, the probe
\* found the product, the purchase failed, and the sleep is due.
C34_Witness ==
    /\ pc = "tick_sleep"
    /\ periodic = "relogin_ok"
    /\ verdict.available
    /\ purchase_failed

\* C35: with is_running cleared the tick under way is carried on as if it
\* were not: an available verdict leads to the purchase and a successful
\* purchase makes the loop return True; no tick is started, and only the
\* while test ends the loop on account of the flag.
C35_TickCompletesAfterClear ==
    [][(pc \in Running /\ ~is_running) =>
          /\ tick' = tick
          /\ exit_reason' = "stopped" => pc = "loop_top"
          /\ (pc = "loop_top" /\ pc' # pc) => pc' = "stopping"
          /\ (pc = "tick_avail" /\ pc' # pc /\ verdict'.available) => pc' = "tick_reprobe"
          /\ (pc = "tick_reprobe" /\ pc' # pc /\ purchase_verdict'.available) =>
                pc' = "tick_purchase"
          /\ (pc = "tick_purchase" /\ purchases_ok' > purchases_ok) =>
                (pc' = "stopping" /\ outcome' = "returned_true")
          /\ (pc = "tick_sleep" /\ pc' # pc /\ exit_reason' = "none") => pc' = "loop_top"]_vars

\* The loop has returned True from a purchase made after the flag was
\* cleared, and stop() has not run yet.
C35_Witness ==
    /\ pc = "stopping"
    /\ ~is_running
    /\ outcome = "returned_true"
    /\ exit_reason = "purchased"
    /\ purchases_ok = 1

\* C40: once is_running is cleared while the loop runs, the loop returns.
C40_ClearedLoopReturns ==
    (pc \in Running /\ ~is_running) ~> (pc \notin Running)

\* The loop has returned because the while test found the flag cleared,
\* after at least one tick.
C40_Witness ==
    /\ pc = "stopping"
    /\ ~is_running
    /\ exit_reason = "stopped"
    /\ outcome = "returned_false"
    /\ tick >= 1

====
